---- MODULE Spec2Model ----
(***************************************************************************)
(* A model of the path tessellator of src/src/gpu/SkGr.cpp (the code of    *)
(* GrTessellator that the file carries from line 721 on): the six stages   *)
(* path_to_contours, build_edges, merge_sort, simplify, tessellate and     *)
(* polys_to_triangles, and the two entry points PathToTriangles and        *)
(* PathToVertices.                                                         *)
(*                                                                         *)
(* Arena objects are numbered from 1; the null pointer is 0.  A Vertex, an *)
(* Edge, a Poly and a MonotonePoly are records whose fields carry the      *)
(* names of the C++ members, and every list is threaded through those      *)
(* fields exactly as in the source (list_insert / list_remove).            *)
(*                                                                         *)
(* Arithmetic.  Coordinates are integers counted in units of one float     *)
(* spacing, an eighth of a pixel (PixelUnits units to the pixel): the      *)
(* model's point (x, y) stands for the SkPoint (2^20 + 8 + x/8,            *)
(* 2^20 + 8 + y/8).  In the binade [2^20, 2^21) every float is a multiple  *)
(* of 1/8, so the double-precision line coefficients, Line::dist, the      *)
(* sweep comparators and the cross products of MonotonePoly::emit are      *)
(* exact (their operands are integers times a power of two, below 2^53)    *)
(* and invariant under the translation.  The roundings left are the        *)
(* conversion of an intersection point to float, which is round to         *)
(* nearest, ties to even (RoundDiv, SurdRound), and round(), which moves a *)
(* float to the quarter-pixel grid, the even units.                        *)
(***************************************************************************)
EXTENDS Integers, Sequences, FiniteSets, TLC

(***************************************************************************)
(* Bounds of the model.                                                    *)
(***************************************************************************)
MaxCoord == 3

\* the longest contour, the longest contour that is run under every fill
\* type, and the longest and the scale of the antialiased contours
MaxLen == 6

ShortLen == 4

AALen == 3

AAScale == 3

\* the most corners of a convex polygon
ConvexLen == 5

\* the longest contour that is run next to a triangle it shares corners with
SharedLen == 3

(***************************************************************************)
(* The scale: the floats of the binade the coordinates lie in, per pixel.  *)
(***************************************************************************)
PixelUnits == 8

----------------------------------------------------------------------------
(***************************************************************************)
(* Integer helpers.                                                        *)
(***************************************************************************)
Abs(x) == IF x < 0 THEN -x ELSE x

Max(a, b) == IF a > b THEN a ELSE b

\* floor(n / d) for d > 0 (\div already floors in TLA+)
FloorDiv(n, d) == n \div d

\* n / d rounded to the nearest integer, ties to the even integer: the
\* double -> float conversion SkDoubleToScalar of a value whose neighbours
\* in float are the integers.
RoundDiv(n, d) ==
    LET nn == IF d < 0 THEN -n ELSE n
        dd == Abs(d)
        \* q is the quotient rounded down, r2 twice the remainder
        nearest(q, r2) == IF r2 < dd THEN q
                          ELSE IF r2 > dd THEN q + 1
                          ELSE IF q % 2 = 0 THEN q ELSE q + 1
    IN  nearest(nn \div dd, 2 * (nn % dd))

\* the element of a one-element set.  It is used to name a value:
\* Only({ e : x \in {d} }) is e with x standing for the value of d.
Only(S) == CHOOSE x \in S : TRUE

----------------------------------------------------------------------------
(***************************************************************************)
(* list_insert / list_remove (templates over the two link members).  F is  *)
(* the object store (the Vertices or the Edges), P and N the names of the  *)
(* Prev and Next members; the result carries the store and the head and    *)
(* tail the C++ code writes through its T** arguments.                     *)
(***************************************************************************)
list_insert(F, t, prev, next, head, tail, P, N) ==
    LET \* if (prev) prev->*Next = t; else if (head) *head = t;
        link_prev(G) == IF prev # 0 THEN [G EXCEPT ![prev][N] = t] ELSE G
        \* if (next) next->*Prev = t; else if (tail) *tail = t;
        link_next(G) == IF next # 0 THEN [G EXCEPT ![next][P] = t] ELSE G
    IN  [F    |-> link_next(link_prev([F EXCEPT ![t][P] = prev, ![t][N] = next])),
         head |-> IF prev # 0 THEN head ELSE t,
         tail |-> IF next # 0 THEN tail ELSE t]

list_remove(F, t, head, tail, P, N) ==
    LET \* if (t->*Prev) t->*Prev->*Next = t->*Next; else if (head) *head = t->*Next;
        unlink_prev(G) == IF G[t][P] # 0 THEN [G EXCEPT ![G[t][P]][N] = G[t][N]]
                          ELSE G
        \* if (t->*Next) t->*Next->*Prev = t->*Prev; else if (tail) *tail = t->*Prev;
        unlink_next(G) == IF G[t][N] # 0 THEN [G EXCEPT ![G[t][N]][P] = G[t][P]]
                          ELSE G
        \* t->*Prev = t->*Next = nullptr;
        clear(G) == [G EXCEPT ![t][P] = 0, ![t][N] = 0]
    IN  [F    |-> clear(unlink_next(unlink_prev(F))),
         head |-> IF F[t][P] # 0 THEN head ELSE F[t][N],
         tail |-> IF F[t][N] # 0 THEN tail ELSE F[t][P]]

----------------------------------------------------------------------------
(***************************************************************************)
(* Vertex, Comparator, Line, Edge.                                         *)
(***************************************************************************)
Vertex(point, alpha) ==
    [fPoint |-> point, fPrev |-> 0, fNext |-> 0,
     fFirstEdgeAbove |-> 0, fLastEdgeAbove |-> 0,
     fFirstEdgeBelow |-> 0, fLastEdgeBelow |-> 0,
     fProcessed |-> FALSE, fAlpha |-> alpha]

\* a horizontal sweep that breaks ties by Y ascending; the tie-break of
\* C17 must tell it from sweep_lt_horiz
sweep_lt_horiz_ascending(a, b) == a[1] < b[1] \/ (a[1] = b[1] /\ a[2] < b[2])

\* a point is <<x, y>>
sweep_lt_horiz(a, b) == a[1] < b[1] \/ (a[1] = b[1] /\ a[2] > b[2])

sweep_lt_vert(a, b) == a[2] < b[2] \/ (a[2] = b[2] /\ a[1] < b[1])

\* Comparator::sweep_lt; c is the Direction
sweep_lt(c, a, b) ==
    IF c = "kHorizontal" THEN sweep_lt_horiz(a, b) ELSE sweep_lt_vert(a, b)

Line(p, q) ==
    [fA |-> q[2] - p[2],
     fB |-> p[1] - q[1],
     fC |-> p[2] * q[1] - p[1] * q[2]]

\* Line::dist
dist(line, p) == line.fA * p[1] + line.fB * p[2] + line.fC

coincident(a, b) == a = b

\* Edge::Edge; the line is computed from the two vertices' points
Edge(V, top, bottom, winding, type) ==
    [fWinding |-> winding, fTop |-> top, fBottom |-> bottom, fType |-> type,
     fLeft |-> 0, fRight |-> 0,
     fPrevEdgeAbove |-> 0, fNextEdgeAbove |-> 0,
     fPrevEdgeBelow |-> 0, fNextEdgeBelow |-> 0,
     fLeftPoly |-> 0, fRightPoly |-> 0,
     fLeftPolyPrev |-> 0, fLeftPolyNext |-> 0,
     fRightPolyPrev |-> 0, fRightPolyNext |-> 0,
     fUsedInLeftPoly |-> FALSE, fUsedInRightPoly |-> FALSE,
     fLine |-> Line(V[top].fPoint, V[bottom].fPoint)]

(***************************************************************************)
(* The tessellation state m: the arena (V, E, P, MP), the vertex list      *)
(* `mesh', the active edge list `activeEdges', the head of the polygon     *)
(* list `polys', and `asserts', the source lines of the SkASSERTs that     *)
(* have failed (a release build compiles them out and runs on).            *)
(***************************************************************************)
EmptyList == [fHead |-> 0, fTail |-> 0]

NewState ==
    [V |-> << >>, E |-> << >>, P |-> << >>, MP |-> << >>,
     mesh |-> EmptyList, activeEdges |-> EmptyList, polys |-> 0,
     asserts |-> {}]

SkASSERT(m, cond, line) ==
    IF cond THEN m ELSE [m EXCEPT !.asserts = @ \cup {line}]

PointOf(m, v) == m.V[v].fPoint

\* Edge::isRightOf, Edge::isLeftOf
isRightOf(m, e, v) == dist(m.E[e].fLine, PointOf(m, v)) < 0

isLeftOf(m, e, v) == dist(m.E[e].fLine, PointOf(m, v)) > 0

\* an Edge whose line is left as it was when an end point moves; the line
\* equation of C9 must tell it from recompute
recompute_never(m, e) == m

\* Edge::recompute
recompute(m, e) ==
    [m EXCEPT !.E[e].fLine =
        Line(PointOf(m, m.E[e].fTop), PointOf(m, m.E[e].fBottom))]

\* an EdgeList whose contains forgets the head, so that the only edge of a
\* list is not found in it; the membership assertions of C28 must tell it
\* from contains
contains_linked(m, e) ==
    m.E[e].fLeft # 0 \/ m.E[e].fRight # 0

\* EdgeList::contains
contains(m, e) ==
    m.E[e].fLeft # 0 \/ m.E[e].fRight # 0 \/ m.activeEdges.fHead = e

\* alloc.make<Edge>
make_Edge(m, top, bottom, winding, type) ==
    [m EXCEPT !.E = Append(@, Edge(m.V, top, bottom, winding, type))]

\* alloc.make<Vertex>
make_Vertex(m, point, alpha) ==
    [m EXCEPT !.V = Append(@, Vertex(point, alpha))]

----------------------------------------------------------------------------
(***************************************************************************)
(* The active edge list and the edges-above / edges-below lists.           *)
(***************************************************************************)
remove_edge(m, edge) ==
    LET removed(r) ==
            [SkASSERT(m, contains(m, edge), 1504)
                EXCEPT !.E = r.F,
                       !.activeEdges = [fHead |-> r.head, fTail |-> r.tail]]
    IN  removed(list_remove(m.E, edge, m.activeEdges.fHead,
                            m.activeEdges.fTail, "fLeft", "fRight"))

insert_edge(m, edge, prev) ==
    LET next == IF prev # 0 THEN m.E[prev].fRight ELSE m.activeEdges.fHead
        inserted(r) ==
            [SkASSERT(m, ~contains(m, edge), 1510)
                EXCEPT !.E = r.F,
                       !.activeEdges = [fHead |-> r.head, fTail |-> r.tail]]
    IN  inserted(list_insert(m.E, edge, prev, next, m.activeEdges.fHead,
                             m.activeEdges.fTail, "fLeft", "fRight"))

RECURSIVE enclosing_walk_v(_, _, _, _)
\* the loop of find_enclosing_edges(Vertex*, ...), from the tail leftwards
enclosing_walk_v(m, v, prev, next) ==
    IF prev = 0 THEN [left |-> 0, right |-> next]
    ELSE IF isLeftOf(m, prev, v) THEN [left |-> prev, right |-> next]
    ELSE enclosing_walk_v(m, v, m.E[prev].fLeft, prev)

\* find_enclosing_edges(Vertex* v, EdgeList* edges, Edge** left, Edge** right)
find_enclosing_edges_v(m, v) ==
    IF m.V[v].fFirstEdgeAbove # 0 /\ m.V[v].fLastEdgeAbove # 0
    THEN [left  |-> m.E[m.V[v].fFirstEdgeAbove].fLeft,
          right |-> m.E[m.V[v].fLastEdgeAbove].fRight]
    ELSE enclosing_walk_v(m, v, m.activeEdges.fTail, 0)

RECURSIVE enclosing_walk_e(_, _, _, _, _)
\* the loop of find_enclosing_edges(Edge*, ...), from the head rightwards
enclosing_walk_e(m, edge, c, prev, next) ==
    IF next = 0 THEN [left |-> prev, right |-> 0]
    ELSE LET et == m.E[edge].fTop
             eb == m.E[edge].fBottom
             nt == m.E[next].fTop
             nb == m.E[next].fBottom
         IN  IF \/ (sweep_lt(c, PointOf(m, nt), PointOf(m, et)) /\ isRightOf(m, next, et))
                \/ (sweep_lt(c, PointOf(m, et), PointOf(m, nt)) /\ isLeftOf(m, edge, nt))
                \/ (sweep_lt(c, PointOf(m, eb), PointOf(m, nb)) /\ isRightOf(m, next, eb))
                \/ (sweep_lt(c, PointOf(m, nb), PointOf(m, eb)) /\ isLeftOf(m, edge, nb))
             THEN [left |-> prev, right |-> next]
             ELSE enclosing_walk_e(m, edge, c, next, m.E[next].fRight)

\* find_enclosing_edges(Edge* edge, EdgeList* edges, Comparator& c, ...)
find_enclosing_edges_e(m, edge, c) ==
    enclosing_walk_e(m, edge, c, 0, m.activeEdges.fHead)

\* activeEdges is TRUE for &activeEdges and FALSE for nullptr
fix_active_state(m, edge, activeEdges, c) ==
    IF ~activeEdges THEN m
    ELSE IF contains(m, edge)
    THEN IF \/ m.V[m.E[edge].fBottom].fProcessed
            \/ ~m.V[m.E[edge].fTop].fProcessed
         THEN remove_edge(m, edge)
         ELSE m
    ELSE IF m.V[m.E[edge].fTop].fProcessed /\ ~m.V[m.E[edge].fBottom].fProcessed
    THEN insert_edge(m, edge, find_enclosing_edges_e(m, edge, c).left)
    ELSE m

RECURSIVE above_walk(_, _, _, _, _)
\* the loop of insert_edge_above, to the first edge above v that is right
\* of edge's top, and the list_insert that follows it
above_walk(m, edge, v, prev, next) ==
    IF next = 0 \/ isRightOf(m, next, m.E[edge].fTop)
    THEN list_insert(m.E, edge, prev, next,
                     m.V[v].fFirstEdgeAbove, m.V[v].fLastEdgeAbove,
                     "fPrevEdgeAbove", "fNextEdgeAbove")
    ELSE above_walk(m, edge, v, next, m.E[next].fNextEdgeAbove)

insert_edge_above(m, edge, v, c) ==
    IF \/ PointOf(m, m.E[edge].fTop) = PointOf(m, m.E[edge].fBottom)
       \/ sweep_lt(c, PointOf(m, m.E[edge].fBottom), PointOf(m, m.E[edge].fTop))
    THEN m
    ELSE LET inserted(r) == [m EXCEPT !.E = r.F,
                                      !.V[v].fFirstEdgeAbove = r.head,
                                      !.V[v].fLastEdgeAbove = r.tail]
         IN  inserted(above_walk(m, edge, v, 0, m.V[v].fFirstEdgeAbove))

RECURSIVE below_walk(_, _, _, _, _)
\* the loop of insert_edge_below and the list_insert that follows it
below_walk(m, edge, v, prev, next) ==
    IF next = 0 \/ isRightOf(m, next, m.E[edge].fBottom)
    THEN list_insert(m.E, edge, prev, next,
                     m.V[v].fFirstEdgeBelow, m.V[v].fLastEdgeBelow,
                     "fPrevEdgeBelow", "fNextEdgeBelow")
    ELSE below_walk(m, edge, v, next, m.E[next].fNextEdgeBelow)

insert_edge_below(m, edge, v, c) ==
    IF \/ PointOf(m, m.E[edge].fTop) = PointOf(m, m.E[edge].fBottom)
       \/ sweep_lt(c, PointOf(m, m.E[edge].fBottom), PointOf(m, m.E[edge].fTop))
    THEN m
    ELSE LET inserted(r) == [m EXCEPT !.E = r.F,
                                      !.V[v].fFirstEdgeBelow = r.head,
                                      !.V[v].fLastEdgeBelow = r.tail]
         IN  inserted(below_walk(m, edge, v, 0, m.V[v].fFirstEdgeBelow))

remove_edge_above(m, edge) ==
    LET b == m.E[edge].fBottom
        removed(r) == [m EXCEPT !.E = r.F,
                                !.V[b].fFirstEdgeAbove = r.head,
                                !.V[b].fLastEdgeAbove = r.tail]
    IN  removed(list_remove(m.E, edge, m.V[b].fFirstEdgeAbove,
                            m.V[b].fLastEdgeAbove,
                            "fPrevEdgeAbove", "fNextEdgeAbove"))

remove_edge_below(m, edge) ==
    LET t == m.E[edge].fTop
        removed(r) == [m EXCEPT !.E = r.F,
                                !.V[t].fFirstEdgeBelow = r.head,
                                !.V[t].fLastEdgeBelow = r.tail]
    IN  removed(list_remove(m.E, edge, m.V[t].fFirstEdgeBelow,
                            m.V[t].fLastEdgeBelow,
                            "fPrevEdgeBelow", "fNextEdgeBelow"))

disconnect(m, edge) == remove_edge_below(remove_edge_above(m, edge), edge)

\* disconnect(edge); if (activeEdges && activeEdges->contains(edge)) ...
erase_edge(m, edge, activeEdges) ==
    Only({ IF activeEdges /\ contains(w, edge) THEN remove_edge(w, edge) ELSE w :
             w \in {disconnect(m, edge)} })

----------------------------------------------------------------------------
(***************************************************************************)
(* The topology repair: set_top / set_bottom, the merges of collinear      *)
(* edges, split_edge and cleanup_active_edges call one another.            *)
(***************************************************************************)
RECURSIVE set_top(_, _, _, _, _)
RECURSIVE set_bottom(_, _, _, _, _)
RECURSIVE merge_edges_above(_, _, _, _, _)
RECURSIVE merge_edges_below(_, _, _, _, _)
RECURSIVE merge_collinear_edges(_, _, _, _)
RECURSIVE split_edge(_, _, _, _, _)
RECURSIVE cleanup_active_edges(_, _, _, _)

\* remove_edge_below(edge); edge->fTop = v; edge->recompute();
\* insert_edge_below(edge, v, c); fix_active_state(edge, activeEdges, c);
\* merge_collinear_edges(edge, activeEdges, c);
set_top(m, edge, v, activeEdges, c) ==
    merge_collinear_edges(
        fix_active_state(
            insert_edge_below(
                recompute([remove_edge_below(m, edge) EXCEPT !.E[edge].fTop = v],
                          edge),
                edge, v, c),
            edge, activeEdges, c),
        edge, activeEdges, c)

set_bottom(m, edge, v, activeEdges, c) ==
    merge_collinear_edges(
        fix_active_state(
            insert_edge_above(
                recompute([remove_edge_above(m, edge) EXCEPT !.E[edge].fBottom = v],
                          edge),
                edge, v, c),
            edge, activeEdges, c),
        edge, activeEdges, c)

merge_edges_above(m, edge, other, activeEdges, c) ==
    IF coincident(PointOf(m, m.E[edge].fTop), PointOf(m, m.E[other].fTop))
    THEN erase_edge([m EXCEPT !.E[other].fWinding = @ + m.E[edge].fWinding],
                    edge, activeEdges)
    ELSE LET \* of the two edges, the one with the higher top is cut at the
             \* top of the other, which takes its winding
             edgeFirst == sweep_lt(c, PointOf(m, m.E[edge].fTop),
                                      PointOf(m, m.E[other].fTop))
             cut  == IF edgeFirst THEN edge ELSE other
             keep == IF edgeFirst THEN other ELSE edge
         IN  set_bottom([m EXCEPT !.E[keep].fWinding = @ + m.E[cut].fWinding],
                        cut, m.E[keep].fTop, activeEdges, c)

merge_edges_below(m, edge, other, activeEdges, c) ==
    IF coincident(PointOf(m, m.E[edge].fBottom), PointOf(m, m.E[other].fBottom))
    THEN erase_edge([m EXCEPT !.E[other].fWinding = @ + m.E[edge].fWinding],
                    edge, activeEdges)
    ELSE LET \* of the two edges, the one with the lower bottom is cut at the
             \* bottom of the other, which takes its winding
             edgeFirst == sweep_lt(c, PointOf(m, m.E[edge].fBottom),
                                      PointOf(m, m.E[other].fBottom))
             cut  == IF edgeFirst THEN other ELSE edge
             keep == IF edgeFirst THEN edge ELSE other
         IN  set_top([m EXCEPT !.E[keep].fWinding = @ + m.E[cut].fWinding],
                     cut, m.E[keep].fBottom, activeEdges, c)

\* the edge merge_collinear_edges merges `edge' with above: the previous
\* or the next edge above its bottom vertex, or 0 for neither
collinear_above(m, edge) ==
    LET pa == m.E[edge].fPrevEdgeAbove
        na == m.E[edge].fNextEdgeAbove
    IN  IF pa # 0 /\ (\/ m.E[edge].fTop = m.E[pa].fTop
                      \/ ~isLeftOf(m, pa, m.E[edge].fTop))
        THEN pa
        ELSE IF na # 0 /\ (\/ m.E[edge].fTop = m.E[na].fTop
                           \/ ~isLeftOf(m, edge, m.E[na].fTop))
        THEN na
        ELSE 0

\* the edge merge_collinear_edges merges `edge' with below
collinear_below(m, edge) ==
    LET pb == m.E[edge].fPrevEdgeBelow
        nb == m.E[edge].fNextEdgeBelow
    IN  IF pb # 0 /\ (\/ m.E[edge].fBottom = m.E[pb].fBottom
                      \/ ~isLeftOf(m, pb, m.E[edge].fBottom))
        THEN pb
        ELSE IF nb # 0 /\ (\/ m.E[edge].fBottom = m.E[nb].fBottom
                           \/ ~isLeftOf(m, edge, m.E[nb].fBottom))
        THEN nb
        ELSE 0

\* a merge that leaves collinear edges as they are; the single segment of
\* C15 must tell it from merge_collinear_edges
merge_collinear_edges_never(m, edge, activeEdges, c) == m

\* w is the state the first if / else if leaves
merge_collinear_edges(m, edge, activeEdges, c) ==
    Only({ IF collinear_below(w, edge) # 0
           THEN merge_edges_below(w, edge, collinear_below(w, edge), activeEdges, c)
           ELSE w :
             w \in { IF collinear_above(m, edge) # 0
                     THEN merge_edges_above(m, edge, collinear_above(m, edge),
                                            activeEdges, c)
                     ELSE m } })

\* one of the two blocks of cleanup_active_edges: n is edge->fLeft (left is
\* TRUE) or edge->fRight, top and bottom the ends of `edge' on entry
cleanup_neighbour(m, edge, top, bottom, n, left, activeEdges, c) ==
    IF n = 0 THEN m
    ELSE LET nTop    == m.E[n].fTop
             nBottom == m.E[n].fBottom
             \* !n->isLeftOf(v) for the left neighbour, !n->isRightOf(v)
             \* for the right one, and the opposite test on `edge'
             nReaches(v)    == IF left THEN ~isLeftOf(m, n, v)
                                       ELSE ~isRightOf(m, n, v)
             edgeReaches(v) == IF left THEN ~isRightOf(m, edge, v)
                                       ELSE ~isLeftOf(m, edge, v)
         IN  IF sweep_lt(c, PointOf(m, nTop), PointOf(m, top)) /\ nReaches(top)
             THEN split_edge(m, n, top, activeEdges, c)
             ELSE IF sweep_lt(c, PointOf(m, top), PointOf(m, nTop))
                     /\ edgeReaches(nTop)
             THEN split_edge(m, edge, nTop, activeEdges, c)
             ELSE IF sweep_lt(c, PointOf(m, bottom), PointOf(m, nBottom))
                     /\ nReaches(bottom)
             THEN split_edge(m, n, bottom, activeEdges, c)
             ELSE IF sweep_lt(c, PointOf(m, nBottom), PointOf(m, bottom))
                     /\ edgeReaches(nBottom)
             THEN split_edge(m, edge, nBottom, activeEdges, c)
             ELSE m

\* if (edge->fLeft) { ... } if (edge->fRight) { ... }
cleanup_active_edges(m, edge, activeEdges, c) ==
    Only({ cleanup_neighbour(w, edge, m.E[edge].fTop, m.E[edge].fBottom,
                             w.E[edge].fRight, FALSE, activeEdges, c) :
             w \in { cleanup_neighbour(m, edge, m.E[edge].fTop, m.E[edge].fBottom,
                                       m.E[edge].fLeft, TRUE, activeEdges, c) } })

split_edge(m, edge, v, activeEdges, c) ==
    IF sweep_lt(c, PointOf(m, v), PointOf(m, m.E[edge].fTop))
    THEN set_top(m, edge, v, activeEdges, c)
    ELSE IF sweep_lt(c, PointOf(m, m.E[edge].fBottom), PointOf(m, v))
    THEN set_bottom(m, edge, v, activeEdges, c)
    ELSE LET \* Edge* newEdge = alloc.make<Edge>(v, edge->fBottom, ...)
             newEdge == Len(m.E) + 1
         IN  merge_collinear_edges(
                 fix_active_state(
                     cleanup_active_edges(
                         set_bottom(
                             insert_edge_above(
                                 insert_edge_below(
                                     make_Edge(m, v, m.E[edge].fBottom,
                                               m.E[edge].fWinding, m.E[edge].fType),
                                     newEdge, v, c),
                                 newEdge, m.E[edge].fBottom, c),
                             edge, v, activeEdges, c),
                         edge, activeEdges, c),
                     newEdge, activeEdges, c),
                 newEdge, activeEdges, c)

----------------------------------------------------------------------------
(***************************************************************************)
(* Intersections.                                                          *)
(***************************************************************************)
\* an intersect that moves the point it finds to the nearest quarter of a
\* pixel; the placement of C26 must tell it from intersect
intersect_snapped(m, edge, other) ==
    LET e  == m.E[edge]
        o  == m.E[other]
        dx == PointOf(m, o.fTop)[1] - PointOf(m, e.fTop)[1]
        dy == PointOf(m, o.fTop)[2] - PointOf(m, e.fTop)[2]
        none == [found |-> FALSE, p |-> <<0, 0>>, alpha |-> 0]
        snap(x) == ((4 * x + PixelUnits \div 2) \div PixelUnits) * (PixelUnits \div 4)
        at(denom, sNumer, tNumer) ==
            IF denom = 0 THEN none
            ELSE IF (IF denom > 0
                     THEN sNumer < 0 \/ sNumer > denom \/ tNumer < 0 \/ tNumer > denom
                     ELSE sNumer > 0 \/ sNumer < denom \/ tNumer > 0 \/ tNumer < denom)
            THEN none
            ELSE [found |-> TRUE,
                  p     |-> << snap(RoundDiv(PointOf(m, e.fTop)[1] * denom
                                             - sNumer * e.fLine.fB, denom)),
                               snap(RoundDiv(PointOf(m, e.fTop)[2] * denom
                                             + sNumer * e.fLine.fA, denom)) >>,
                  alpha |-> IF e.fType = "kConnector"
                            THEN ((denom - sNumer) * m.V[e.fTop].fAlpha
                                  + sNumer * m.V[e.fBottom].fAlpha) \div denom
                            ELSE IF o.fType = "kConnector"
                            THEN ((denom - tNumer) * m.V[o.fTop].fAlpha
                                  + tNumer * m.V[o.fBottom].fAlpha) \div denom
                            ELSE IF e.fType = "kOuter" /\ o.fType = "kOuter" THEN 0
                            ELSE 255]
    IN  IF e.fTop = o.fTop \/ e.fBottom = o.fBottom THEN none
        ELSE at(e.fLine.fA * o.fLine.fB - e.fLine.fB * o.fLine.fA,
                dy * o.fLine.fB + dx * o.fLine.fA,
                dy * e.fLine.fB + dx * e.fLine.fA)

\* Edge::intersect(const Edge& other, SkPoint* p, uint8_t* alpha).  The two
\* numerators and the denominator are exact; s = sNumer / denom and the
\* point fTop + s * (-fB, fA) is rounded once, to float.  The alpha of a
\* connector edge, (1 - s) * top alpha + s * bottom alpha truncated to
\* uint8_t, is taken from the exact quotient; the double arithmetic of the
\* code can fall one short of it when the quotient is an integer.
intersect(m, edge, other) ==
    LET e  == m.E[edge]
        o  == m.E[other]
        dx == PointOf(m, o.fTop)[1] - PointOf(m, e.fTop)[1]
        dy == PointOf(m, o.fTop)[2] - PointOf(m, e.fTop)[2]
        none == [found |-> FALSE, p |-> <<0, 0>>, alpha |-> 0]
        at(denom, sNumer, tNumer) ==
            IF denom = 0 THEN none
            ELSE IF (IF denom > 0
                     THEN sNumer < 0 \/ sNumer > denom \/ tNumer < 0 \/ tNumer > denom
                     ELSE sNumer > 0 \/ sNumer < denom \/ tNumer > 0 \/ tNumer < denom)
            THEN none
            ELSE [found |-> TRUE,
                  p     |-> << RoundDiv(PointOf(m, e.fTop)[1] * denom
                                        - sNumer * e.fLine.fB, denom),
                               RoundDiv(PointOf(m, e.fTop)[2] * denom
                                        + sNumer * e.fLine.fA, denom) >>,
                  alpha |-> IF e.fType = "kConnector"
                            THEN ((denom - sNumer) * m.V[e.fTop].fAlpha
                                  + sNumer * m.V[e.fBottom].fAlpha) \div denom
                            ELSE IF o.fType = "kConnector"
                            THEN ((denom - tNumer) * m.V[o.fTop].fAlpha
                                  + tNumer * m.V[o.fBottom].fAlpha) \div denom
                            ELSE IF e.fType = "kOuter" /\ o.fType = "kOuter" THEN 0
                            ELSE 255]
    IN  IF e.fTop = o.fTop \/ e.fBottom = o.fBottom THEN none
        ELSE at(e.fLine.fA * o.fLine.fB - e.fLine.fB * o.fLine.fA,
                dy * o.fLine.fB + dx * o.fLine.fA,
                dy * e.fLine.fB + dx * e.fLine.fA)

RECURSIVE walk_prev(_, _, _, _)
\* while (c.sweep_lt(p, nextV->fPoint)) nextV = nextV->fPrev;
walk_prev(m, c, p, nextV) ==
    IF sweep_lt(c, p, PointOf(m, nextV))
    THEN walk_prev(m, c, p, m.V[nextV].fPrev) ELSE nextV

RECURSIVE walk_next(_, _, _, _)
\* while (c.sweep_lt(nextV->fPoint, p)) nextV = nextV->fNext;
walk_next(m, c, p, nextV) ==
    IF sweep_lt(c, PointOf(m, nextV), p)
    THEN walk_next(m, c, p, m.V[nextV].fNext) ELSE nextV

\* the last else of check_for_intersection, from Vertex* prevV on: the
\* vertex at p between prevV and nextV, made and linked in when neither of
\* the two is at p; the state and the vertex
intersection_vertex(m, p, alpha, nextV) ==
    LET prevV == m.V[nextV].fPrev
        v     == Len(m.V) + 1
    IN  IF coincident(PointOf(m, prevV), p) THEN [m |-> m, v |-> prevV]
        ELSE IF coincident(PointOf(m, nextV), p) THEN [m |-> m, v |-> nextV]
        ELSE [m |-> [make_Vertex(m, p, alpha)
                        EXCEPT !.V[v].fPrev = prevV, !.V[v].fNext = nextV,
                               !.V[prevV].fNext = v, !.V[nextV].fPrev = v],
              v |-> v]

\* the body of if (edge->intersect(*other, &p, &alpha)) for the result i of
\* the call: the state and the vertex returned (0 for nullptr)
split_at_intersection(m, edge, other, i, c) ==
    LET p == i.p
        \* v->fAlpha = SkTMax(v->fAlpha, alpha); return v;
        found(w, v) == [m |-> [w EXCEPT !.V[v].fAlpha = Max(@, i.alpha)], v |-> v]
        \* the first four cases: p is at or beyond an end of one of the two
        \* edges, and the other edge is split there
        end == IF p = PointOf(m, m.E[edge].fTop)
                  \/ sweep_lt(c, p, PointOf(m, m.E[edge].fTop))
               THEN [split |-> other, of |-> edge, at |-> "fTop"]
               ELSE IF p = PointOf(m, m.E[edge].fBottom)
                       \/ sweep_lt(c, PointOf(m, m.E[edge].fBottom), p)
               THEN [split |-> other, of |-> edge, at |-> "fBottom"]
               ELSE IF p = PointOf(m, m.E[other].fTop)
                       \/ sweep_lt(c, p, PointOf(m, m.E[other].fTop))
               THEN [split |-> edge, of |-> other, at |-> "fTop"]
               ELSE IF p = PointOf(m, m.E[other].fBottom)
                       \/ sweep_lt(c, PointOf(m, m.E[other].fBottom), p)
               THEN [split |-> edge, of |-> other, at |-> "fBottom"]
               ELSE [split |-> 0, of |-> 0, at |-> "none"]
    IN  IF ~i.found THEN [m |-> m, v |-> 0]
        ELSE IF end.split # 0
        THEN \* split_edge(..., of->at, ...); v = of->at;
             Only({ found(w, w.E[end.of][end.at]) :
                      w \in { split_edge(m, end.split, m.E[end.of][end.at], TRUE, c) } })
        ELSE \* split_edge(edge, v, ...); split_edge(other, v, ...);
             Only({ found(split_edge(split_edge(n.m, edge, n.v, TRUE, c),
                                     other, n.v, TRUE, c),
                          n.v) :
                      n \in { intersection_vertex(m, p, i.alpha,
                                  walk_next(m, c, p,
                                      walk_prev(m, c, p, m.E[edge].fTop))) } })

\* a check that never finds an intersection; the crossing vertex of C12
\* must tell it from check_for_intersection
check_for_intersection_never(m, edge, other, c) == [m |-> m, v |-> 0]

\* check_for_intersection(edge, other, &activeEdges, c, alloc): the state
\* and the vertex returned
check_for_intersection(m, edge, other, c) ==
    IF edge = 0 \/ other = 0 THEN [m |-> m, v |-> 0]
    ELSE split_at_intersection(m, edge, other, intersect(m, edge, other), c)

----------------------------------------------------------------------------
(***************************************************************************)
(* Stage 2: contours to a mesh of edges.                                   *)
(***************************************************************************)
\* append_point_to_contour(p, prev, &head, alloc): the state, the new
\* vertex, and the head
append_point_to_contour(m, p, prev, head) ==
    LET v == Len(m.V) + 1
    IN  IF prev # 0
        THEN [m |-> [make_Vertex(m, p, 255)
                        EXCEPT !.V[prev].fNext = v, !.V[v].fPrev = prev],
              v |-> v, head |-> head]
        ELSE [m |-> make_Vertex(m, p, 255), v |-> v, head |-> v]

\* an edge that forgets which way its contour runs: the winding is 1
\* whether or not the ends had to be swapped; the hole of C13 must tell it
\* from new_edge
new_edge_unsigned(m, prev, next, type, c) ==
    LET swap == ~sweep_lt(c, PointOf(m, prev), PointOf(m, next))
    IN  make_Edge(m, IF swap THEN next ELSE prev,
                     IF swap THEN prev ELSE next, 1, type)

\* new_edge(prev, next, type, c, alloc): the edge runs from the earlier end
\* to the later, and its winding says which way the contour ran
new_edge(m, prev, next, type, c) ==
    LET winding == IF sweep_lt(c, PointOf(m, prev), PointOf(m, next)) THEN 1 ELSE -1
        top     == IF winding < 0 THEN next ELSE prev
        bottom  == IF winding < 0 THEN prev ELSE next
    IN  make_Edge(m, top, bottom, winding, type)

\* a connect that leaves the winding new_edge gave, whatever the scale; the
\* windings of C25 must tell it from connect
connect_unscaled(m, prev, next, type, c, winding_scale) ==
    LET edge == Len(m.E) + 1
    IN  Only({ merge_collinear_edges(
                   insert_edge_above(
                       insert_edge_below(w, edge, w.E[edge].fTop, c),
                       edge, w.E[edge].fBottom, c),
                   edge, FALSE, c) :
                 w \in { new_edge(m, prev, next, type, c) } })

\* connect(prev, next, type, c, alloc, winding_scale); the new edge is the
\* last of the result's E, and w the state new_edge leaves
connect(m, prev, next, type, c, winding_scale) ==
    LET edge == Len(m.E) + 1
    IN  Only({ merge_collinear_edges(
                   [insert_edge_above(
                        insert_edge_below(w, edge, w.E[edge].fTop, c),
                        edge, w.E[edge].fBottom, c)
                       EXCEPT !.E[edge].fWinding = @ * winding_scale],
                   edge, FALSE, c) :
                 w \in { new_edge(m, prev, next, type, c) } })

RECURSIVE merge_vertices_above(_, _, _, _)
\* the first loop of merge_vertices
merge_vertices_above(m, edge, dst, c) ==
    IF edge = 0 THEN m
    ELSE merge_vertices_above(set_bottom(m, edge, dst, FALSE, c),
                              m.E[edge].fNextEdgeAbove, dst, c)

RECURSIVE merge_vertices_below(_, _, _, _)
\* the second loop of merge_vertices
merge_vertices_below(m, edge, dst, c) ==
    IF edge = 0 THEN m
    ELSE merge_vertices_below(set_top(m, edge, dst, FALSE, c),
                              m.E[edge].fNextEdgeBelow, dst, c)

\* VertexList::remove on the mesh
mesh_remove(m, v) ==
    LET removed(r) == [m EXCEPT !.V = r.F,
                                !.mesh = [fHead |-> r.head, fTail |-> r.tail]]
    IN  removed(list_remove(m.V, v, m.mesh.fHead, m.mesh.fTail, "fPrev", "fNext"))

\* a merge that takes src out of the mesh and leaves its edges where they
\* are; the edges of C20 must tell it from merge_vertices
merge_vertices_unlinked(m, src, dst, c) ==
    mesh_remove([m EXCEPT !.V[dst].fAlpha = Max(m.V[src].fAlpha, m.V[dst].fAlpha)],
                src)

\* merge_vertices(src, dst, mesh, c, alloc)
\* w is the state the first loop leaves
merge_vertices(m, src, dst, c) ==
    Only({ mesh_remove(merge_vertices_below(w, w.V[src].fFirstEdgeBelow, dst, c),
                       src) :
             w \in { merge_vertices_above(
                         [m EXCEPT !.V[dst].fAlpha =
                                       Max(m.V[src].fAlpha, m.V[dst].fAlpha)],
                         m.V[src].fFirstEdgeAbove, dst, c) } })

RECURSIVE merge_coincident_loop(_, _, _)
\* the loop of merge_coincident_vertices from v on; w is the state its body
\* leaves
merge_coincident_loop(m, v, c) ==
    IF v = 0 THEN m
    ELSE LET prev  == m.V[v].fPrev
             moved == IF sweep_lt(c, PointOf(m, v), PointOf(m, prev))
                      THEN [m EXCEPT !.V[v].fPoint = PointOf(m, prev)]
                      ELSE m
         IN  Only({ merge_coincident_loop(w, w.V[v].fNext, c) :
                      w \in { IF coincident(PointOf(moved, prev), PointOf(moved, v))
                              THEN merge_vertices(moved, prev, v, c)
                              ELSE moved } })

merge_coincident_vertices(m, c) ==
    merge_coincident_loop(m, m.V[m.mesh.fHead].fNext, c)

\* round(SkPoint*): to the nearest quarter pixel.  A coordinate of x units
\* is x / PixelUnits pixels: SkScalarRoundToScalar(. * 4.0f) is
\* floor(4 x / PixelUnits + 0.5), a count of quarter pixels, and * 0.25f
\* gives back pixels, PixelUnits / 4 units to the quarter.
round_scalar(x) ==
    ((4 * x + PixelUnits \div 2) \div PixelUnits) * (PixelUnits \div 4)

round(p) == << round_scalar(p[1]), round_scalar(p[2]) >>

RECURSIVE sanitize_walk(_, _, _, _)
\* the inner loop of sanitize_contours on one contour: the state and the
\* contour's head (0 when the contour is dropped)
sanitize_walk(m, head, v, approximate) ==
    LET pv == m.V[v].fPrev
        nx == m.V[v].fNext
        rounded == IF approximate THEN [m EXCEPT !.V[v].fPoint = round(@)] ELSE m
    IN  IF coincident(PointOf(rounded, pv), PointOf(rounded, v))
        THEN IF pv = v THEN [m |-> rounded, head |-> 0]
             ELSE sanitize_walk([rounded EXCEPT !.V[pv].fNext = nx,
                                                !.V[nx].fPrev = pv],
                                IF head = v THEN pv ELSE head, pv, approximate)
        ELSE IF nx = head THEN [m |-> rounded, head |-> head]
        ELSE sanitize_walk(rounded, head, nx, approximate)

RECURSIVE sanitize_contours(_, _, _, _)
\* sanitize_contours(contours, contourCnt, approximate), from contour i on:
\* the state and the contours; w is what the inner loop leaves
sanitize_contours(m, contours, i, approximate) ==
    IF i > Len(contours) THEN [m |-> m, contours |-> contours]
    ELSE LET checked == SkASSERT(m, contours[i] # 0, 1853)
             start   == IF approximate
                        THEN [checked EXCEPT
                                 !.V[m.V[contours[i]].fPrev].fPoint = round(@)]
                        ELSE checked
         IN  Only({ sanitize_contours(w.m, [contours EXCEPT ![i] = w.head], i + 1,
                                      approximate) :
                      w \in { sanitize_walk(start, contours[i], contours[i],
                                            approximate) } })

RECURSIVE build_edges_walk(_, _, _, _, _)
\* the inner loop of build_edges on one contour, from v on (0 once the loop
\* is back at the head): the state and `prev'
build_edges_walk(m, head, v, prev, c) ==
    IF v = 0 THEN [m |-> m, prev |-> prev]
    ELSE LET vNext == m.V[v].fNext
             \* if (prev) { prev->fNext = v; v->fPrev = prev; } else ...
             linked(w) == IF prev # 0
                          THEN [w EXCEPT !.V[prev].fNext = v, !.V[v].fPrev = prev]
                          ELSE [w EXCEPT !.mesh.fHead = v]
         IN  build_edges_walk(linked(connect(m, m.V[v].fPrev, v, "kInner", c, 1)),
                              head, IF vNext = head THEN 0 ELSE vNext, v, c)

RECURSIVE build_edges_loop(_, _, _, _, _)
build_edges_loop(m, contours, i, prev, c) ==
    IF i > Len(contours) THEN [m |-> m, prev |-> prev]
    ELSE Only({ build_edges_loop(w.m, contours, i + 1, w.prev, c) :
                  w \in { build_edges_walk(m, contours[i], contours[i], prev, c) } })

\* build_edges(contours, contourCnt, &mesh, c, alloc)
build_edges(m, contours, c) ==
    LET \* if (prev) { prev->fNext = mesh->fHead->fPrev = nullptr; }
        \* mesh->fTail = prev;
        ended(w) == IF w.prev # 0
                    THEN [w.m EXCEPT !.V[w.prev].fNext = 0,
                                     !.V[w.m.mesh.fHead].fPrev = 0,
                                     !.mesh.fTail = w.prev]
                    ELSE [w.m EXCEPT !.mesh.fTail = w.prev]
    IN  ended(build_edges_loop(m, contours, 1, 0, c))

\* contours_to_mesh(contours, contourCnt, antialias, &mesh, c, alloc)
contours_to_mesh(m, contours, antialias, c) ==
    Only({ build_edges(s.m, s.contours, c) :
             s \in { sanitize_contours(m, contours, 1, antialias) } })

----------------------------------------------------------------------------
(***************************************************************************)
(* Stage 3: merge_sort.  A VertexList is a record [fHead, fTail]; the      *)
(* result is the vertex store and the list.                                *)
(***************************************************************************)
\* VertexList::insert
VertexList_insert(V, list, v, prev, next) ==
    LET stored(r) == [V |-> r.F, list |-> [fHead |-> r.head, fTail |-> r.tail]]
    IN  stored(list_insert(V, v, prev, next, list.fHead, list.fTail, "fPrev", "fNext"))

\* VertexList::append
VertexList_append(V, list, v) == VertexList_insert(V, list, v, list.fTail, 0)

\* VertexList::prepend
VertexList_prepend(V, list, v) == VertexList_insert(V, list, v, 0, list.fHead)

RECURSIVE merge_sort_split(_, _, _)
\* the do-while of merge_sort: where `slow' stops
merge_sort_split(V, slow, fast) ==
    LET f1 == V[fast].fNext
    IN  IF f1 = 0 THEN slow
        ELSE IF V[f1].fNext = 0 THEN V[slow].fNext
        ELSE merge_sort_split(V, V[slow].fNext, V[f1].fNext)

RECURSIVE merge_sort_merge_stable(_, _, _, _)
\* a merge that takes the head of the front half unless the head of the
\* back half is strictly earlier; the order of equal vertices of C16 must
\* tell it from merge_sort_merge
merge_sort_merge_stable(r, a, b, c) ==
    LET rest(s, x) == IF x # 0
                      THEN VertexList_insert(s.V, s.list, x, s.list.fTail, s.V[x].fNext)
                      ELSE s
    IN  IF a # 0 /\ b # 0
        THEN IF ~sweep_lt(c, r.V[b].fPoint, r.V[a].fPoint)
             THEN merge_sort_merge_stable(VertexList_append(r.V, r.list, a),
                                          r.V[a].fNext, b, c)
             ELSE merge_sort_merge_stable(VertexList_append(r.V, r.list, b),
                                          a, r.V[b].fNext, c)
        ELSE rest(rest(r, a), b)

RECURSIVE merge_sort_merge(_, _, _, _)
\* the while (a && b) loop and the two trailing inserts; r is the vertex
\* store and the list `vertices'
merge_sort_merge(r, a, b, c) ==
    LET \* if (x) vertices->insert(x, vertices->fTail, x->fNext);
        rest(s, x) == IF x # 0
                      THEN VertexList_insert(s.V, s.list, x, s.list.fTail, s.V[x].fNext)
                      ELSE s
    IN  IF a # 0 /\ b # 0
        THEN IF sweep_lt(c, r.V[a].fPoint, r.V[b].fPoint)
             THEN merge_sort_merge(VertexList_append(r.V, r.list, a),
                                   r.V[a].fNext, b, c)
             ELSE merge_sort_merge(VertexList_append(r.V, r.list, b),
                                   a, r.V[b].fNext, c)
        ELSE rest(rest(r, a), b)

\* a sort that leaves the list as it finds it; the order of C19 must tell
\* it from merge_sort
merge_sort_none(V, vertices, c) == [V |-> V, list |-> vertices]

RECURSIVE merge_sort(_, _, _)
\* merge_sort<sweep_lt>(VertexList* vertices); c selects the template
\* argument.  sf is the sorted front half, and sb the sorted back half in
\* the store sf leaves.
merge_sort(V, vertices, c) ==
    IF vertices.fHead = 0 THEN [V |-> V, list |-> vertices]
    ELSE IF V[vertices.fHead].fNext = 0 THEN [V |-> V, list |-> vertices]
    ELSE LET slow == merge_sort_split(V, vertices.fHead, V[vertices.fHead].fNext)
         IN  Only({ Only({ merge_sort_merge([V |-> sb.V, list |-> EmptyList],
                                            sf.list.fHead, sb.list.fHead, c) :
                             sb \in { merge_sort(sf.V,
                                          [fHead |-> V[slow].fNext,
                                           fTail |-> vertices.fTail], c) } }) :
                      sf \in { merge_sort([V EXCEPT ![slow].fNext = 0,
                                                    ![V[slow].fNext].fPrev = 0],
                                          [fHead |-> vertices.fHead, fTail |-> slow],
                                          c) } })

----------------------------------------------------------------------------
(***************************************************************************)
(* Stage 4: simplify.  One iteration of the do-while of simplify is        *)
(* simplify_checks; when it asks for no restart, simplify_finish is the    *)
(* rest of the loop body.                                                  *)
(***************************************************************************)
max_edge_alpha(m, a, b) ==
    IF m.E[a].fType = "kInner" \/ m.E[b].fType = "kInner" THEN 255
    ELSE IF m.E[a].fType = "kOuter" /\ m.E[b].fType = "kOuter" THEN 0
    ELSE Max(Max(m.V[m.E[a].fTop].fAlpha, m.V[m.E[a].fBottom].fAlpha),
             Max(m.V[m.E[b].fTop].fAlpha, m.V[m.E[b].fBottom].fAlpha))

RECURSIVE simplify_below(_, _, _, _, _)
\* the for loop over the edges below v: the state and restartChecks.  onLeft
\* and onRight are what check_for_intersection gives for the edge against
\* the left and the right enclosing edge; the second is looked at only when
\* the first found nothing.
simplify_below(m, edge, left, right, c) ==
    LET restart(r) == [m |-> r.m, restartChecks |-> TRUE]
        checked(onLeft, onRight) ==
            IF onLeft.v # 0 THEN restart(onLeft)
            ELSE IF onRight.v # 0 THEN restart(onRight)
            ELSE simplify_below(m, m.E[edge].fNextEdgeBelow, left, right, c)
    IN  IF edge = 0 THEN [m |-> m, restartChecks |-> FALSE]
        ELSE checked(check_for_intersection(m, edge, left, c),
                     check_for_intersection(m, edge, right, c))

\* the body of the do-while: the state, v (which the body may move back to
\* the intersection vertex), restartChecks and the enclosing edges
simplify_checks(m, v, c) ==
    LET enc == find_enclosing_edges_v(m, v)
        \* if (v->fFirstEdgeBelow) { for ... }
        below(r) == [m |-> r.m, v |-> v, restartChecks |-> r.restartChecks,
                     left |-> enc.left, right |-> enc.right]
        \* else if (Vertex* pv = check_for_intersection(left, right, ...))
        between(r) == [m |-> r.m,
                       v |-> IF r.v # 0 /\ sweep_lt(c, PointOf(r.m, r.v), PointOf(r.m, v))
                             THEN r.v ELSE v,
                       restartChecks |-> r.v # 0,
                       left |-> enc.left, right |-> enc.right]
    IN  IF m.V[v].fFirstEdgeBelow # 0
        THEN below(simplify_below(m, m.V[v].fFirstEdgeBelow, enc.left, enc.right, c))
        ELSE between(check_for_intersection(m, enc.left, enc.right, c))

RECURSIVE simplify_remove(_, _)
\* for (Edge* e = v->fFirstEdgeAbove; e; e = e->fNextEdgeAbove) remove_edge
simplify_remove(m, e) ==
    IF e = 0 THEN m ELSE simplify_remove(remove_edge(m, e), m.E[e].fNextEdgeAbove)

RECURSIVE simplify_insert(_, _, _)
\* for (Edge* e = v->fFirstEdgeBelow; e; e = e->fNextEdgeBelow) insert_edge
simplify_insert(m, e, leftEdge) ==
    IF e = 0 THEN m
    ELSE simplify_insert(insert_edge(m, e, leftEdge), m.E[e].fNextEdgeBelow, e)

\* a vertex step that leaves the edges above v in the active list; the
\* unprocessed bottoms of C21 must tell it from simplify_finish
simplify_finish_keeping(m, v, left, right) ==
    [simplify_insert(m, m.V[v].fFirstEdgeBelow, left)
        EXCEPT !.V[v].fProcessed = TRUE]

\* the loop body after the do-while; neither the alpha nor remove_edge
\* touches v's lists of edges, which are read here before them
simplify_finish(m, v, left, right) ==
    LET alpha == IF /\ m.V[v].fAlpha = 0
                    /\ left # 0 /\ m.E[left].fWinding < 0
                    /\ right # 0 /\ m.E[right].fWinding > 0
                 THEN [m EXCEPT !.V[v].fAlpha = max_edge_alpha(m, left, right)]
                 ELSE m
    IN  [simplify_insert(simplify_remove(alpha, m.V[v].fFirstEdgeAbove),
                         m.V[v].fFirstEdgeBelow, left)
            EXCEPT !.V[v].fProcessed = TRUE]

----------------------------------------------------------------------------
(***************************************************************************)
(* Poly and MonotonePoly.                                                  *)
(***************************************************************************)
Poly(v, winding) ==
    [fFirstVertex |-> v, fWinding |-> winding, fHead |-> 0, fTail |-> 0,
     fNext |-> 0, fPartner |-> 0, fCount |-> 0]

\* MonotonePoly::addEdge
MonotonePoly_addEdge(m, mp, edge) ==
    LET right == m.MP[mp].fSide = "kRight_Side"
        used  == IF right THEN "fUsedInRightPoly" ELSE "fUsedInLeftPoly"
        added(r) == [SkASSERT(m, ~m.E[edge][used], IF right THEN 1188 ELSE 1193)
                        EXCEPT !.E = [r.F EXCEPT ![edge][used] = TRUE],
                               !.MP[mp].fFirstEdge = r.head,
                               !.MP[mp].fLastEdge = r.tail]
    IN  added(list_insert(m.E, edge, m.MP[mp].fLastEdge, 0,
                          m.MP[mp].fFirstEdge, m.MP[mp].fLastEdge,
                          IF right THEN "fRightPolyPrev" ELSE "fLeftPolyPrev",
                          IF right THEN "fRightPolyNext" ELSE "fLeftPolyNext"))

\* alloc.make<MonotonePoly>(edge, side); the new object is the last of MP
make_MonotonePoly(m, edge, side) ==
    MonotonePoly_addEdge(
        [m EXCEPT !.MP = Append(@, [fSide |-> side, fFirstEdge |-> 0,
                                    fLastEdge |-> 0, fPrev |-> 0, fNext |-> 0])],
        Len(m.MP) + 1, edge)

\* Poly::lastVertex
lastVertex(m, poly) ==
    IF m.P[poly].fTail # 0
    THEN m.E[m.MP[m.P[poly].fTail].fLastEdge].fBottom
    ELSE m.P[poly].fFirstVertex

\* new_poly(&polys, v, winding, alloc); the new Poly is the last of P
new_poly(m, v, winding) ==
    [m EXCEPT !.P = Append(@, [Poly(v, winding) EXCEPT !.fNext = m.polys]),
              !.polys = Len(m.P) + 1]

RECURSIVE Poly_addEdge(_, _, _, _)
\* Poly::addEdge(e, side, alloc): the state and the Poly returned.  newEdge
\* is the edge the last branch makes and mp the MonotonePoly a branch
\* makes; `parted' is the state once fPartner is cleared on both sides.
Poly_addEdge(m, this, e, side) ==
    LET partner == m.P[this].fPartner
        fTail   == m.P[this].fTail
        newEdge == Len(m.E) + 1
        mp      == Len(m.MP) + 1
        parted  == IF partner # 0
                   THEN [m EXCEPT !.P[partner].fPartner = 0, !.P[this].fPartner = 0]
                   ELSE m
        \* e = alloc.make<Edge>(...); fTail->addEdge(e); fCount++;
        bridged == [MonotonePoly_addEdge(
                        make_Edge(parted, m.E[m.MP[fTail].fLastEdge].fBottom,
                                  m.E[e].fBottom, 1, "kInner"),
                        fTail, newEdge)
                       EXCEPT !.P[this].fCount = @ + 1]
    IN  IF (IF side = "kRight_Side" THEN m.E[e].fUsedInRightPoly
                                    ELSE m.E[e].fUsedInLeftPoly)
        THEN [m |-> m, poly |-> this]
        ELSE IF fTail = 0
        THEN [m |-> [make_MonotonePoly(parted, e, side)
                        EXCEPT !.P[this].fHead = mp,
                               !.P[this].fTail = mp,
                               !.P[this].fCount = @ + 2],
              poly |-> this]
        ELSE IF m.E[e].fBottom = m.E[m.MP[fTail].fLastEdge].fBottom
        THEN [m |-> parted, poly |-> this]
        ELSE IF side = m.MP[fTail].fSide
        THEN [m |-> [MonotonePoly_addEdge(parted, fTail, e)
                        EXCEPT !.P[this].fCount = @ + 1],
              poly |-> this]
        ELSE IF partner # 0
        THEN [m |-> Poly_addEdge(bridged, partner, newEdge, side).m,
              poly |-> partner]
        ELSE [m |-> [make_MonotonePoly(bridged, newEdge, side)
                        EXCEPT !.MP[mp].fPrev = fTail,
                               !.MP[fTail].fNext = mp,
                               !.P[this].fTail = mp],
              poly |-> this]

----------------------------------------------------------------------------
(***************************************************************************)
(* Stage 5: tessellate.  tessellate_vertex is the body of the loop over    *)
(* the sorted vertices; it carries the record t of the state m and the     *)
(* locals leftPoly and rightPoly.                                          *)
(***************************************************************************)
RECURSIVE tessellate_above(_, _, _)
\* for (Edge* e = v->fFirstEdgeAbove; e != v->fLastEdgeAbove; ...)
tessellate_above(m, v, e) ==
    LET rightEdge == m.E[e].fNextEdgeAbove
        \* if (e->fRightPoly) e->fRightPoly->addEdge(e, Poly::kLeft_Side, alloc);
        onLeft(w) == IF w.E[e].fRightPoly # 0
                     THEN Poly_addEdge(w, w.E[e].fRightPoly, e, "kLeft_Side").m
                     ELSE w
        \* if (rightEdge->fLeftPoly && rightEdge->fLeftPoly != e->fRightPoly)
        onRight(w) == IF /\ w.E[rightEdge].fLeftPoly # 0
                         /\ w.E[rightEdge].fLeftPoly # w.E[e].fRightPoly
                      THEN Poly_addEdge(w, w.E[rightEdge].fLeftPoly, e, "kRight_Side").m
                      ELSE w
    IN  IF e = m.V[v].fLastEdgeAbove \/ e = 0 THEN m
        ELSE tessellate_above(
                 onRight(onLeft(remove_edge(
                     SkASSERT(m, isRightOf(m, rightEdge, m.E[e].fTop), 2070), e))),
                 v, rightEdge)

RECURSIVE tessellate_below(_, _, _, _)
\* for (Edge* rightEdge = leftEdge->fNextEdgeBelow; rightEdge; ...)
tessellate_below(m, v, leftEdge, rightEdge) ==
    LET lp      == m.E[leftEdge].fLeftPoly
        winding == (IF lp # 0 THEN m.P[lp].fWinding ELSE 0) + m.E[leftEdge].fWinding
        poly    == Len(m.P) + 1
        \* if (winding != 0) { ... }
        filled(w) == IF winding # 0
                     THEN [new_poly(w, v, winding)
                              EXCEPT !.E[leftEdge].fRightPoly = poly,
                                     !.E[rightEdge].fLeftPoly = poly]
                     ELSE w
    IN  IF rightEdge = 0 THEN m
        ELSE tessellate_below(filled(insert_edge(m, rightEdge, leftEdge)),
                              v, rightEdge, m.E[rightEdge].fNextEdgeBelow)

\* if (v->fFirstEdgeAbove) { ... } of tessellate (lines 2061 to 2087)
tessellate_edges_above(t, v) ==
    LET left(s, r)  == [s EXCEPT !.m = r.m, !.leftPoly = r.poly]
        right(s, r) == [s EXCEPT !.m = r.m, !.rightPoly = r.poly]
        addLeft(s) ==
            IF s.leftPoly # 0
            THEN left(s, Poly_addEdge(s.m, s.leftPoly, s.m.V[v].fFirstEdgeAbove,
                                      "kRight_Side"))
            ELSE s
        addRight(s) ==
            IF s.rightPoly # 0
            THEN right(s, Poly_addEdge(s.m, s.rightPoly, s.m.V[v].fLastEdgeAbove,
                                       "kLeft_Side"))
            ELSE s
        last(w) == remove_edge(w, w.V[v].fLastEdgeAbove)
        removed(s) ==
            [s EXCEPT !.m = last(tessellate_above(s.m, v, s.m.V[v].fFirstEdgeAbove))]
        partnered(s) ==
            IF /\ s.m.V[v].fFirstEdgeBelow = 0
               /\ s.leftPoly # 0 /\ s.rightPoly # 0 /\ s.leftPoly # s.rightPoly
            THEN [s EXCEPT !.m =
                     [SkASSERT(s.m, /\ s.m.P[s.leftPoly].fPartner = 0
                                    /\ s.m.P[s.rightPoly].fPartner = 0, 2082)
                         EXCEPT !.P[s.rightPoly].fPartner = s.leftPoly,
                                !.P[s.leftPoly].fPartner = s.rightPoly]]
            ELSE s
    IN  IF t.m.V[v].fFirstEdgeAbove = 0 THEN t
        ELSE partnered(removed(addRight(addLeft(t))))

\* if (v->fFirstEdgeBelow) { ... } of tessellate (lines 2088 to 2122): the
\* state; `join' is the edge line 2102 makes
tessellate_edges_below(t, v, leftEnclosingEdge, rightEnclosingEdge) ==
    LET join     == Len(t.m.E) + 1
        leftEdge == t.m.V[v].fFirstEdgeBelow
        \* if (leftPoly == rightPoly) { ... }
        split(s) ==
            IF s.leftPoly # s.rightPoly THEN s
            ELSE IF /\ s.m.P[s.leftPoly].fTail # 0
                    /\ s.m.MP[s.m.P[s.leftPoly].fTail].fSide = "kLeft_Side"
            THEN [s EXCEPT !.m = [new_poly(s.m, lastVertex(s.m, s.leftPoly),
                                           s.m.P[s.leftPoly].fWinding)
                                     EXCEPT !.E[leftEnclosingEdge].fRightPoly =
                                                Len(s.m.P) + 1],
                           !.leftPoly = Len(s.m.P) + 1]
            ELSE [s EXCEPT !.m = [new_poly(s.m, lastVertex(s.m, s.rightPoly),
                                           s.m.P[s.rightPoly].fWinding)
                                     EXCEPT !.E[rightEnclosingEdge].fLeftPoly =
                                                Len(s.m.P) + 1],
                           !.rightPoly = Len(s.m.P) + 1]
        made(s) == [s EXCEPT !.m = make_Edge(s.m, lastVertex(s.m, s.leftPoly), v,
                                             1, "kInner")]
        left(s, r)  == [s EXCEPT !.m = r.m, !.leftPoly = r.poly]
        right(s, r) == [s EXCEPT !.m = r.m, !.rightPoly = r.poly]
        addLeft(s)  == left(s, Poly_addEdge(s.m, s.leftPoly, join, "kRight_Side"))
        addRight(s) == right(s, Poly_addEdge(s.m, s.rightPoly, join, "kLeft_Side"))
        \* if (!v->fFirstEdgeAbove) { if (leftPoly && rightPoly) { ... } }
        joined(s) ==
            IF s.m.V[v].fFirstEdgeAbove = 0 /\ s.leftPoly # 0 /\ s.rightPoly # 0
            THEN addRight(addLeft(made(split(s))))
            ELSE s
        \* leftEdge->fLeftPoly = leftPoly; insert_edge(...); for ...
        inserted(s) ==
            [s EXCEPT !.m = tessellate_below(
                                insert_edge([s.m EXCEPT !.E[leftEdge].fLeftPoly =
                                                            s.leftPoly],
                                            leftEdge, leftEnclosingEdge),
                                v, leftEdge, s.m.E[leftEdge].fNextEdgeBelow)]
        \* v->fLastEdgeBelow->fRightPoly = rightPoly;
        closed(s) == [s.m EXCEPT !.E[s.m.V[v].fLastEdgeBelow].fRightPoly = s.rightPoly]
    IN  IF t.m.V[v].fFirstEdgeBelow = 0 THEN t.m
        ELSE closed(inserted(joined(t)))

\* the body of the loop of tessellate
tessellate_vertex(m, v) ==
    LET enc == find_enclosing_edges_v(m, v)
        leftPoly  == IF m.V[v].fFirstEdgeAbove # 0
                     THEN m.E[m.V[v].fFirstEdgeAbove].fLeftPoly
                     ELSE IF enc.left # 0 THEN m.E[enc.left].fRightPoly ELSE 0
        rightPoly == IF m.V[v].fFirstEdgeAbove # 0
                     THEN m.E[m.V[v].fLastEdgeAbove].fRightPoly
                     ELSE IF enc.right # 0 THEN m.E[enc.right].fLeftPoly ELSE 0
    IN  IF m.V[v].fFirstEdgeAbove = 0 /\ m.V[v].fFirstEdgeBelow = 0 THEN m
        ELSE tessellate_edges_below(
                 tessellate_edges_above(
                     [m |-> m, leftPoly |-> leftPoly, rightPoly |-> rightPoly], v),
                 v, enc.left, enc.right)

----------------------------------------------------------------------------
(***************************************************************************)
(* Stage 6: the triangles.  `data' is the sequence of the vertices written *)
(* so far; aaParams is "null" for a null pointer, and otherwise names the  *)
(* value of fTweakAlpha.  Every written vertex carries, next to what the   *)
(* code writes, the Poly it was written for.                               *)
(***************************************************************************)
emit_vertex(m, v, aaParams, data, poly) ==
    IF aaParams = "null"
    THEN Append(data, [fPosition |-> PointOf(m, v), poly |-> poly])
    ELSE Append(data, [fPosition |-> PointOf(m, v), fAlpha |-> m.V[v].fAlpha,
                       poly |-> poly])

\* a triangle written with two corners swapped; the areas of C11 must tell
\* it from emit_triangle
emit_triangle_swapped(m, v0, v1, v2, aaParams, data, poly) ==
    emit_vertex(m, v1, aaParams,
        emit_vertex(m, v2, aaParams,
            emit_vertex(m, v0, aaParams, data, poly), poly), poly)

emit_triangle(m, v0, v1, v2, aaParams, data, poly) ==
    emit_vertex(m, v2, aaParams,
        emit_vertex(m, v1, aaParams,
            emit_vertex(m, v0, aaParams, data, poly), poly), poly)

RECURSIVE emit_collect(_, _, _, _)
\* the first loop of MonotonePoly::emit: the vertices of the chain, linked
\* through the Vertices' own fPrev / fNext; r is the vertex store and the
\* list `vertices'
emit_collect(r, E, e, side) ==
    IF e = 0 THEN r
    ELSE IF side = "kRight_Side"
    THEN emit_collect(VertexList_append(r.V, r.list, E[e].fBottom),
                      E, E[e].fRightPolyNext, side)
    ELSE emit_collect(VertexList_prepend(r.V, r.list, E[e].fBottom),
                      E, E[e].fLeftPolyNext, side)

RECURSIVE emit_fan_strict(_, _, _, _, _, _, _)
\* an ear-clip that leaves a vertex with collinear neighbours alone; the
\* zero-area triangle of C14 must tell it from emit_fan
emit_fan_strict(m, first, fTail, v, aaParams, data, poly) ==
    IF v = fTail THEN [m |-> m, data |-> data]
    ELSE IF v = 0 \/ m.V[v].fPrev = 0 \/ m.V[v].fNext = 0
    THEN [m |-> SkASSERT(m, FALSE, 1216), data |-> data]
    ELSE LET prev == m.V[v].fPrev
             next == m.V[v].fNext
             ax == PointOf(m, v)[1] - PointOf(m, prev)[1]
             ay == PointOf(m, v)[2] - PointOf(m, prev)[2]
             bx == PointOf(m, next)[1] - PointOf(m, v)[1]
             by == PointOf(m, next)[2] - PointOf(m, v)[2]
         IN  IF ax * by - ay * bx > 0
             THEN emit_fan_strict(
                      [m EXCEPT !.V[prev].fNext = next, !.V[next].fPrev = prev],
                      first, fTail, IF prev = first THEN next ELSE prev,
                      aaParams,
                      emit_triangle(m, prev, v, next, aaParams, data, poly),
                      poly)
             ELSE emit_fan_strict(m, first, fTail, next, aaParams, data, poly)

RECURSIVE emit_fan_always(_, _, _, _, _, _, _)
\* a second loop that cuts every corner off, whatever its turn; the signed
\* areas of C23 must tell it from emit_fan
emit_fan_always(m, first, fTail, v, aaParams, data, poly) ==
    IF v = fTail THEN [m |-> m, data |-> data]
    ELSE IF v = 0 \/ m.V[v].fPrev = 0 \/ m.V[v].fNext = 0
    THEN [m |-> SkASSERT(m, FALSE, 1216), data |-> data]
    ELSE LET prev == m.V[v].fPrev
             next == m.V[v].fNext
         IN  emit_fan_always([m EXCEPT !.V[prev].fNext = next, !.V[next].fPrev = prev],
                             first, fTail, IF prev = first THEN next ELSE prev,
                             aaParams,
                             emit_triangle(m, prev, v, next, aaParams, data, poly),
                             poly)

RECURSIVE emit_fan(_, _, _, _, _, _, _)
\* the second loop of MonotonePoly::emit
emit_fan(m, first, fTail, v, aaParams, data, poly) ==
    IF v = fTail THEN [m |-> m, data |-> data]
    ELSE IF v = 0 \/ m.V[v].fPrev = 0 \/ m.V[v].fNext = 0
    THEN [m |-> SkASSERT(m, FALSE, 1216), data |-> data]
    ELSE LET prev == m.V[v].fPrev
             next == m.V[v].fNext
             ax == PointOf(m, v)[1] - PointOf(m, prev)[1]
             ay == PointOf(m, v)[2] - PointOf(m, prev)[2]
             bx == PointOf(m, next)[1] - PointOf(m, v)[1]
             by == PointOf(m, next)[2] - PointOf(m, v)[2]
         IN  IF ax * by - ay * bx >= 0
             THEN emit_fan([m EXCEPT !.V[prev].fNext = next, !.V[next].fPrev = prev],
                           first, fTail, IF prev = first THEN next ELSE prev,
                           aaParams,
                           emit_triangle(m, prev, v, next, aaParams, data, poly),
                           poly)
             ELSE emit_fan(m, first, fTail, next, aaParams, data, poly)

\* MonotonePoly::emit(aaParams, data); r is the state and the data, and l
\* the vertex store and the list the first loop leaves
MonotonePoly_emit(r, mp, aaParams, poly) ==
    LET e == r.m.MP[mp].fFirstEdge
        fan(l) == emit_fan([r.m EXCEPT !.V = l.V], l.list.fHead, l.list.fTail,
                           l.V[l.list.fHead].fNext, aaParams, r.data, poly)
    IN  fan(emit_collect(VertexList_append(r.m.V, EmptyList, r.m.E[e].fTop),
                         r.m.E, e, r.m.MP[mp].fSide))

RECURSIVE Poly_emit_loop(_, _, _, _)
\* for (MonotonePoly* m = fHead; m != nullptr; m = m->fNext)
Poly_emit_loop(r, mp, aaParams, poly) ==
    IF mp = 0 THEN r
    ELSE Poly_emit_loop(MonotonePoly_emit(r, mp, aaParams, poly),
                        r.m.MP[mp].fNext, aaParams, poly)

\* Poly::emit(aaParams, data)
Poly_emit(r, poly, aaParams) ==
    IF r.m.P[poly].fCount < 3 THEN r
    ELSE Poly_emit_loop(r, r.m.P[poly].fHead, aaParams, poly)

\* SkPath::FillType and apply_fill_type(fillType, int winding); winding & 1
\* of a two's complement int is its residue modulo 2
apply_fill_type(fillType, winding) ==
    CASE fillType = "kWinding_FillType"        -> winding # 0
      [] fillType = "kEvenOdd_FillType"        -> (winding % 2) # 0
      [] fillType = "kInverseWinding_FillType" -> winding = 1
      [] fillType = "kInverseEvenOdd_FillType" -> (winding % 2) = 1

\* apply_fill_type(fillType, Poly* poly)
apply_fill_type_poly(m, fillType, poly) ==
    poly # 0 /\ apply_fill_type(fillType, m.P[poly].fWinding)

RECURSIVE polys_to_triangles(_, _, _, _)
\* polys_to_triangles(polys, fillType, aaParams, data), from `poly' on; r is
\* the state and the data
polys_to_triangles(r, poly, fillType, aaParams) ==
    IF poly = 0 THEN r
    ELSE polys_to_triangles(IF apply_fill_type_poly(r.m, fillType, poly)
                            THEN Poly_emit(r, poly, aaParams)
                            ELSE r,
                            r.m.P[poly].fNext, fillType, aaParams)

\* a count that reserves for a single triangle whatever the Polys are; the
\* reservation of C1 must tell it from count_points
count_points_one_triangle(m, poly, fillType) ==
    IF poly = 0 THEN 0 ELSE 3

RECURSIVE count_points(_, _, _)
\* count_points(polys, fillType), from `poly' on (TESSELLATOR_WIREFRAME is 0)
count_points(m, poly, fillType) ==
    IF poly = 0 THEN 0
    ELSE (IF apply_fill_type_poly(m, fillType, poly) /\ m.P[poly].fCount >= 3
          THEN (m.P[poly].fCount - 2) * 3 ELSE 0)
         + count_points(m, m.P[poly].fNext, fillType)

----------------------------------------------------------------------------
(***************************************************************************)
(* Exact arithmetic for the offset lines of stage 5d.  An offset line has  *)
(* the constant fC + k * radius * sqrt(fA^2 + fB^2) for an integer k, so   *)
(* a coordinate of the intersection of two of them is                      *)
(*     (R + t1 * sqrt(m1) + t2 * sqrt(m2)) / D                             *)
(* with integers R, t1, m1, t2, m2, D.  The code evaluates it in double    *)
(* precision and converts to float; the operators below give the float     *)
(* nearest to the exact value, which is what that conversion yields as     *)
(* long as the exact value is not within the double's rounding error of    *)
(* the midpoint of two floats.                                             *)
(***************************************************************************)
Sgn(x) == IF x > 0 THEN 1 ELSE IF x < 0 THEN -1 ELSE 0

RECURSIVE CmpFrac(_, _, _, _)
\* the sign of a/b - c/d for a, c >= 0 and b, d > 0, by the continued
\* fractions of the two (no product is formed)
CmpFrac(a, b, c, d) ==
    LET q1 == a \div b
        q2 == c \div d
        r1 == a % b
        r2 == c % d
    IN  IF q1 # q2 THEN Sgn(q1 - q2)
        ELSE IF r1 = 0 /\ r2 = 0 THEN 0
        ELSE IF r1 = 0 THEN -1
        ELSE IF r2 = 0 THEN 1
        ELSE -CmpFrac(b, r1, d, r2)

\* the sign of a * b - c * d for a, b, c, d >= 0
CmpProd(a, b, c, d) ==
    IF a = 0 \/ b = 0 THEN (IF c = 0 \/ d = 0 THEN 0 ELSE -1)
    ELSE IF c = 0 \/ d = 0 THEN 1
    ELSE CmpFrac(a, c, d, b)

\* the sign of n + s * sqrt(p), for s in {-1, 0, 1} and p >= 0
SignSurd(n, s, p) ==
    IF s = 0 \/ p = 0 THEN Sgn(n)
    ELSE IF n = 0 \/ Sgn(n) = s THEN s
    ELSE LET cmp == CmpProd(Abs(n), Abs(n), p, 1)
         IN  IF cmp > 0 THEN Sgn(n) ELSE IF cmp = 0 THEN 0 ELSE s

\* the sign of n + s1 * sqrt(p) + s2 * sqrt(q)
SignSurd2(n, s1, p, s2, q) ==
    LET sx == SignSurd(n, s1, p)
    IN  IF s2 = 0 \/ q = 0 THEN sx
        ELSE IF sx = 0 \/ sx = s2 THEN s2
        ELSE \* |n + s1 sqrt(p)| against sqrt(q): the sign of
             \* (n^2 + p - q) + 2 n s1 sqrt(p)
             LET mm == n * n + p - q
                 cn == 2 * n * s1
                 sd == IF cn = 0 THEN Sgn(mm)
                       ELSE IF mm = 0 \/ Sgn(mm) = Sgn(cn) THEN Sgn(cn)
                       ELSE LET cmp == CmpProd(Abs(mm), Abs(mm), cn * cn, p)
                            IN  IF cmp > 0 THEN Sgn(mm)
                                ELSE IF cmp = 0 THEN 0 ELSE Sgn(cn)
             IN  IF sd > 0 THEN sx ELSE IF sd = 0 THEN 0 ELSE s2

RECURSIVE IsqrtIn(_, _, _)
\* the floor of sqrt(n), known to lie in lo..hi
IsqrtIn(n, lo, hi) ==
    IF lo >= hi THEN lo
    ELSE LET mid == (lo + hi + 1) \div 2
         IN  IF mid * mid <= n THEN IsqrtIn(n, mid, hi) ELSE IsqrtIn(n, lo, mid - 1)

Isqrt(n) == IsqrtIn(n, 0, 46340)

RECURSIVE SurdRoundFrom(_, _, _, _, _, _, _, _)
\* the least k >= n with x <= k + 1/2, moved to the even neighbour (of
\* base + k) when x = k + 1/2; x = (r + t1 sqrt(m1) + t2 sqrt(m2)) / d
SurdRoundFrom(n, r, t1, m1, t2, m2, d, base) ==
    LET s == SignSurd2(2 * r - (2 * n + 1) * d,
                       Sgn(t1), 4 * t1 * t1 * m1, Sgn(t2), 4 * t2 * t2 * m2)
    IN  IF s > 0 THEN SurdRoundFrom(n + 1, r, t1, m1, t2, m2, d, base)
        ELSE IF s = 0 /\ (base + n) % 2 # 0 THEN n + 1
        ELSE n

\* base + (r + t1 sqrt(m1) + t2 sqrt(m2)) / d, d # 0, rounded to the nearest
\* integer, ties to even: SkDoubleToScalar of the exact value
SurdRound(r, t1, m1, t2, m2, d, base) ==
    LET rr  == IF d < 0 THEN -r ELSE r
        u1  == IF d < 0 THEN -t1 ELSE t1
        u2  == IF d < 0 THEN -t2 ELSE t2
        dd  == Abs(d)
        est == rr + Sgn(u1) * Isqrt(u1 * u1 * m1) + Sgn(u2) * Isqrt(u2 * u2 * m2)
    IN  base + SurdRoundFrom(((est - 2) \div dd) - 1, rr, u1, m1, u2, m2, dd, base)

----------------------------------------------------------------------------
(***************************************************************************)
(* Stages 5a-5d: the antialiased boundary mesh.  The EdgeList a stage      *)
(* declares (the active edges of remove_non_boundary_edges, the `boundary' *)
(* of extract_boundaries) is m.activeEdges, emptied where the code         *)
(* declares the list.                                                      *)
(***************************************************************************)
RECURSIVE remove_non_boundary_above(_, _, _, _)
\* for (Edge* e = v->fFirstEdgeAbove; e;) of remove_non_boundary_edges
remove_non_boundary_above(m, e, prevFilled, fillType) ==
    LET filled == apply_fill_type(fillType, m.E[e].fWinding)
        \* if (filled == prevFilled) disconnect(e);
        kept(w) == IF filled = prevFilled THEN disconnect(w, e) ELSE w
    IN  IF e = 0 THEN m
        ELSE remove_non_boundary_above(kept(remove_edge(m, e)),
                                       m.E[e].fNextEdgeAbove, filled, fillType)

RECURSIVE remove_non_boundary_below(_, _, _)
\* for (Edge* e = v->fFirstEdgeBelow; e; e = e->fNextEdgeBelow)
remove_non_boundary_below(m, e, prev) ==
    IF e = 0 THEN m
    ELSE remove_non_boundary_below(
             insert_edge(IF prev # 0
                         THEN [m EXCEPT !.E[e].fWinding = @ + m.E[prev].fWinding]
                         ELSE m,
                         e, prev),
             m.E[e].fNextEdgeBelow, e)

RECURSIVE remove_non_boundary_loop(_, _, _)
\* the loop of remove_non_boundary_edges from v on
remove_non_boundary_loop(m, v, fillType) ==
    LET enc == find_enclosing_edges_v(m, v)
        prevFilled == /\ enc.left # 0
                      /\ apply_fill_type(fillType, m.E[enc.left].fWinding)
        below(w) == remove_non_boundary_below(w, w.V[v].fFirstEdgeBelow, enc.left)
    IN  IF v = 0 THEN m
        ELSE IF m.V[v].fFirstEdgeAbove = 0 /\ m.V[v].fFirstEdgeBelow = 0
        THEN remove_non_boundary_loop(m, m.V[v].fNext, fillType)
        ELSE remove_non_boundary_loop(
                 below(remove_non_boundary_above(m, m.V[v].fFirstEdgeAbove,
                                                 prevFilled, fillType)),
                 m.V[v].fNext, fillType)

\* remove_non_boundary_edges(mesh, fillType, alloc)
remove_non_boundary_edges(m, fillType) ==
    remove_non_boundary_loop([m EXCEPT !.activeEdges = EmptyList],
                             m.mesh.fHead, fillType)

\* the radius of boundary_to_aa_mesh, 0.5f pixels, in units
radius == PixelUnits \div 2

\* get_edge_normal
get_edge_normal(m, e) ==
    << m.E[e].fLine.fA * m.E[e].fWinding, m.E[e].fLine.fB * m.E[e].fWinding >>

\* Line::magSq
magSq(line) == line.fA * line.fA + line.fB * line.fB

\* EdgeList::append on the boundary
EdgeList_append(m, e) ==
    LET appended(r) == [m EXCEPT !.E = r.F,
                                 !.activeEdges = [fHead |-> r.head, fTail |-> r.tail]]
    IN  appended(list_insert(m.E, e, m.activeEdges.fTail, 0, m.activeEdges.fHead,
                             m.activeEdges.fTail, "fLeft", "fRight"))

RECURSIVE simplify_boundary_loop(_, _, _, _, _)
\* the for loop of simplify_boundary.  dist * dist <= 0.0625f * magSq is a
\* comparison of pixels: a length of one pixel is PixelUnits units, dist
\* and magSq are products of two lengths.  `join' is the edge new_edge makes
\* and w the state once prevEdge and e are off the boundary.
simplify_boundary_loop(m, prevEdge, prevNormal, e, c) ==
    LET prev == IF m.E[prevEdge].fWinding = 1 THEN m.E[prevEdge].fTop
                                              ELSE m.E[prevEdge].fBottom
        next == IF m.E[e].fWinding = 1 THEN m.E[e].fBottom ELSE m.E[e].fTop
        d      == dist(m.E[e].fLine, PointOf(m, prev))
        normal == get_edge_normal(m, e)
        join   == Len(m.E) + 1
        \* if (join->fLeft && join->fRight) { ... } else { ... }
        between(w) == w.E[join].fLeft # 0 /\ w.E[join].fRight # 0
        prevOf(w)  == IF between(w) THEN w.E[join].fLeft ELSE w.activeEdges.fTail
        nextOf(w)  == IF between(w) THEN join ELSE w.activeEdges.fHead
        joined(w)  == simplify_boundary_loop(w, prevOf(w),
                                             get_edge_normal(w, prevOf(w)),
                                             nextOf(w), c)
    IN  IF e = 0 THEN m
        ELSE IF /\ prevNormal[1] * normal[1] + prevNormal[2] * normal[2] < 0
                /\ 16 * d * d <= PixelUnits * PixelUnits * magSq(m.E[e].fLine)
        THEN joined(remove_edge(
                        remove_edge(
                            insert_edge(new_edge(m, prev, next, "kInner", c), join, e),
                            prevEdge),
                        e))
        ELSE simplify_boundary_loop(m, e, normal, m.E[e].fRight, c)

\* simplify_boundary(boundary, c, alloc)
simplify_boundary(m, c) ==
    simplify_boundary_loop(m, m.activeEdges.fTail,
                           get_edge_normal(m, m.activeEdges.fTail),
                           m.activeEdges.fHead, c)

\* fix_inversions(prev, next, prevBisector, nextBisector, prevEdge, c)
fix_inversions(m, prev, next, prevBisector, nextBisector, prevEdge, c) ==
    LET winding == IF sweep_lt(c, PointOf(m, prev), PointOf(m, next)) THEN 1 ELSE -1
        \* prev->fPoint = next->fPoint = p; prev->fAlpha = next->fAlpha = alpha;
        moved(i) == IF ~i.found THEN m
                    ELSE [m EXCEPT !.V[prev].fPoint = i.p,
                                   !.V[next].fPoint = i.p,
                                   !.V[prev].fAlpha = i.alpha,
                                   !.V[next].fAlpha = i.alpha]
    IN  IF prev = 0 \/ next = 0 THEN m
        ELSE IF winding = m.E[prevEdge].fWinding THEN m
        ELSE moved(intersect(m, prevBisector, nextBisector))

\* Line inner(e->fLine); inner.fC -= offset; with offset = radius *
\* sqrt(magSq) * winding: the line and fOffset, the multiple of
\* radius * sqrt(magSq) added to its fC
offset_line(line, k) ==
    [fA |-> line.fA, fB |-> line.fB, fC |-> line.fC, fOffset |-> k]

\* Line::intersect(const Line& other, SkPoint* point) on two offset lines.
\* The coordinates are evaluated about (ox, oy), the integer point nearest
\* to the intersection of the two lines before they are offset; tc and oc
\* are the constants of the two lines about that point.
Line_intersect(this, other) ==
    LET denom == this.fA * other.fB - this.fB * other.fA
        about(ox, oy) ==
            LET tc == this.fC + this.fA * ox + this.fB * oy
                oc == other.fC + other.fA * ox + other.fB * oy
            IN  [found |-> TRUE,
                 p |-> round(<< SurdRound(this.fB * oc - other.fB * tc,
                                    radius * this.fB * other.fOffset, magSq(other),
                                    -(radius * other.fB * this.fOffset), magSq(this),
                                    denom, ox),
                                SurdRound(other.fA * tc - this.fA * oc,
                                    radius * other.fA * this.fOffset, magSq(this),
                                    -(radius * this.fA * other.fOffset), magSq(other),
                                    denom, oy) >>)]
    IN  IF denom = 0 THEN [found |-> FALSE, p |-> <<0, 0>>]
        ELSE about(RoundDiv(this.fB * other.fC - other.fB * this.fC, denom),
                   RoundDiv(other.fA * this.fC - this.fA * other.fC, denom))

RECURSIVE boundary_offset_loop(_, _, _)
\* the for loop of boundary_to_aa_mesh; w carries the state and the loop's
\* variables, and innerVertex, outerVertex and bisector are the objects the
\* body makes
boundary_offset_loop(w, e, c) ==
    LET line  == w.m.E[e].fLine
        inner == offset_line(line, -w.m.E[e].fWinding)
        outer == offset_line(line, w.m.E[e].fWinding)
        innerVertex == Len(w.m.V) + 1
        outerVertex == Len(w.m.V) + 2
        bisector    == Len(w.m.E) + 1
        \* innerVertices.append(innerVertex); outerVertices.append(outerVertex);
        appended(s) ==
            Only({ Only({ [w EXCEPT !.m = [s EXCEPT !.V = ro.V],
                                    !.innerVertices = ri.list,
                                    !.outerVertices = ro.list,
                                    !.prevBisector = bisector] :
                            ro \in { VertexList_append(ri.V, w.outerVertices,
                                                       outerVertex) } }) :
                     ri \in { VertexList_append(s.V, w.innerVertices, innerVertex) } })
        \* the body of the if, for the two intersections
        placed(ip, op) ==
            IF ip.found /\ op.found
            THEN appended(
                     fix_inversions(
                         fix_inversions(
                             new_edge(make_Vertex(make_Vertex(w.m, ip.p, 255), op.p, 0),
                                      outerVertex, innerVertex, "kConnector", c),
                             w.innerVertices.fTail, innerVertex, w.prevBisector,
                             bisector, w.prevEdge, c),
                         w.outerVertices.fTail, outerVertex, w.prevBisector,
                         bisector, w.prevEdge, c))
            ELSE w
    IN  IF e = 0 THEN w
        ELSE boundary_offset_loop(
                 [placed(Line_intersect(w.prevInner, inner),
                         Line_intersect(w.prevOuter, outer))
                     EXCEPT !.prevInner = inner, !.prevOuter = outer, !.prevEdge = e],
                 w.m.E[e].fRight, c)

\* VertexList::close
VertexList_close(V, list) ==
    IF list.fHead # 0 /\ list.fTail # 0
    THEN [V EXCEPT ![list.fTail].fNext = list.fHead,
                   ![list.fHead].fPrev = list.fTail]
    ELSE V

RECURSIVE boundary_connect_loop(_, _, _, _, _, _, _)
\* the do-while of boundary_to_aa_mesh: the state and the mesh; s is the
\* state the three calls of connect leave and r the vertex store and the
\* mesh after the two appends
boundary_connect_loop(m, mesh, innerVertex, outerVertex, innerHead, outerHead, c) ==
    LET outer(s)     == connect(s, s.V[outerVertex].fPrev, outerVertex, "kOuter", c, 1)
        inner(s)     == connect(s, s.V[innerVertex].fPrev, innerVertex, "kInner", c, -2)
        connector(s) == connect(s, outerVertex, innerVertex, "kConnector", c, 0)
        second(r)    == VertexList_append(r.V, r.list, outerVertex)
        next(s, r) ==
            IF /\ s.V[innerVertex].fNext # innerHead
               /\ s.V[outerVertex].fNext # outerHead
            THEN boundary_connect_loop([s EXCEPT !.V = r.V], r.list,
                                       s.V[innerVertex].fNext, s.V[outerVertex].fNext,
                                       innerHead, outerHead, c)
            ELSE [m |-> [s EXCEPT !.V = r.V], mesh |-> r.list]
        appended(s) == next(s, second(VertexList_append(s.V, mesh, innerVertex)))
    IN  appended(connector(inner(outer(m))))

\* boundary_to_aa_mesh(boundary, mesh, c, alloc): the state and the mesh
boundary_to_aa_mesh(m, mesh, c) ==
    LET head     == m.activeEdges.fHead
        prevEdge == m.activeEdges.fTail
        \* innerVertices.close(); outerVertices.close();
        closed(w) == [w.m EXCEPT !.V = VertexList_close(
                                           VertexList_close(w.m.V, w.innerVertices),
                                           w.outerVertices)]
        \* the edge line 2273 makes
        bisector(w) == Len(w.m.E) + 1
        \* the rest of the function, for what the for loop leaves
        stroked(w) ==
            IF w.innerVertices.fHead = 0 \/ w.outerVertices.fHead = 0
            THEN [m |-> closed(w), mesh |-> mesh]
            ELSE boundary_connect_loop(
                     fix_inversions(
                         fix_inversions(
                             new_edge(closed(w), w.outerVertices.fHead,
                                      w.innerVertices.fHead, "kConnector", c),
                             w.innerVertices.fTail, w.innerVertices.fHead,
                             w.prevBisector, bisector(w), w.prevEdge, c),
                         w.outerVertices.fTail, w.outerVertices.fHead,
                         w.prevBisector, bisector(w), w.prevEdge, c),
                     mesh, w.innerVertices.fHead, w.outerVertices.fHead,
                     w.innerVertices.fHead, w.outerVertices.fHead, c)
    IN  IF head = 0 \/ m.E[head].fRight = 0 \/ m.E[m.E[head].fRight].fRight = 0
        THEN [m |-> m, mesh |-> mesh]
        ELSE stroked(boundary_offset_loop(
                         [m |-> m,
                          prevInner |-> offset_line(m.E[prevEdge].fLine,
                                                    -m.E[prevEdge].fWinding),
                          prevOuter |-> offset_line(m.E[prevEdge].fLine,
                                                    m.E[prevEdge].fWinding),
                          prevEdge |-> prevEdge,
                          prevBisector |-> 0,
                          innerVertices |-> EmptyList,
                          outerVertices |-> EmptyList],
                         head, c))

RECURSIVE extract_boundary_walk(_, _, _, _)
\* the while loop of extract_boundary; w is the state once e is on the
\* boundary
extract_boundary_walk(m, e, down, fillType) ==
    LET outgoing(w) ==
            IF down
            THEN IF w.E[e].fNextEdgeAbove # 0
                 THEN [next |-> w.E[e].fNextEdgeAbove, down |-> FALSE]
                 ELSE IF w.V[w.E[e].fBottom].fLastEdgeBelow # 0
                 THEN [next |-> w.V[w.E[e].fBottom].fLastEdgeBelow, down |-> TRUE]
                 ELSE IF w.E[e].fPrevEdgeAbove # 0
                 THEN [next |-> w.E[e].fPrevEdgeAbove, down |-> FALSE]
                 ELSE [next |-> 0, down |-> down]
            ELSE IF w.E[e].fPrevEdgeBelow # 0
                 THEN [next |-> w.E[e].fPrevEdgeBelow, down |-> TRUE]
                 ELSE IF w.V[w.E[e].fTop].fFirstEdgeAbove # 0
                 THEN [next |-> w.V[w.E[e].fTop].fFirstEdgeAbove, down |-> FALSE]
                 ELSE IF w.E[e].fNextEdgeBelow # 0
                 THEN [next |-> w.E[e].fNextEdgeBelow, down |-> TRUE]
                 ELSE [next |-> 0, down |-> down]
        walk(w, n) == extract_boundary_walk(disconnect(w, e), n.next, n.down, fillType)
        appended(w) == walk(w, outgoing(w))
    IN  IF e = 0 THEN m
        ELSE appended(EdgeList_append(
                          [m EXCEPT !.E[e].fWinding = IF down THEN 1 ELSE -1], e))

\* extract_boundary(boundary, e, fillType, alloc), on an empty boundary
extract_boundary(m, e, fillType) ==
    extract_boundary_walk([m EXCEPT !.activeEdges = EmptyList], e,
                          apply_fill_type(fillType, m.E[e].fWinding), fillType)

RECURSIVE extract_boundaries_loop(_, _, _, _, _)
\* the loops of extract_boundaries over the vertices of inMesh and over
\* the edges below each: the state and outMesh
extract_boundaries_loop(m, outMesh, v, fillType, c) ==
    LET again(r) == extract_boundaries_loop(r.m, r.mesh, v, fillType, c)
    IN  IF v = 0 THEN [m |-> m, mesh |-> outMesh]
        ELSE IF m.V[v].fFirstEdgeBelow # 0
        THEN again(boundary_to_aa_mesh(
                       simplify_boundary(
                           extract_boundary(m, m.V[v].fFirstEdgeBelow, fillType), c),
                       outMesh, c))
        ELSE extract_boundaries_loop(m, outMesh, m.V[v].fNext, fillType, c)

\* extract_boundaries(inMesh, outMesh, fillType, c, alloc)
extract_boundaries(m, fillType, c) ==
    extract_boundaries_loop(remove_non_boundary_edges(m, fillType), EmptyList,
                            m.mesh.fHead, fillType, c)

----------------------------------------------------------------------------
(***************************************************************************)
(* Stage 1: path_to_contours.  A path is the sequence of what              *)
(* SkPath::Iter::next yields before kDone_Verb: records [verb, pts], pts   *)
(* being the points the iterator stores (pts[1] is C++'s pts[0]), and for  *)
(* a curve pointsLeft, the count GrPathUtils reports for it.               *)
(***************************************************************************)
\* SkScalarAve(a, b) = (a + b) * 0.5f: the sum of two floats of the binade
\* is rounded to a float of the next binade, whose spacing is two units
SkScalarAve(a, b) == RoundDiv(a + b, 2)

Ave(p, q) == << SkScalarAve(p[1], q[1]), SkScalarAve(p[2], q[2]) >>

\* SkPoint::distanceToLineSegmentBetweenSqd(a, b) of p, as the fraction
\* [num, den] with den > 0
distanceToLineSegmentBetweenSqd(p, a, b) ==
    LET ux == b[1] - a[1]
        uy == b[2] - a[2]
        vx == p[1] - a[1]
        vy == p[2] - a[2]
        uLengthSqd == ux * ux + uy * uy
        uDotV == ux * vx + uy * vy
        det == ux * vy - uy * vx
    IN  IF uDotV <= 0 THEN [num |-> vx * vx + vy * vy, den |-> 1]
        ELSE IF uDotV > uLengthSqd
        THEN [num |-> (p[1] - b[1]) * (p[1] - b[1]) + (p[2] - b[2]) * (p[2] - b[2]),
              den |-> 1]
        ELSE [num |-> det * det, den |-> uLengthSqd]

\* a test that a distance equal to the tolerance passes too; the stop of
\* C24 must tell it from below_tolerance
below_tolerance_or_at(d, tolSqd) == d.num <= tolSqd * d.den

\* d < tolSqd
below_tolerance(d, tolSqd) == d.num < tolSqd * d.den

RECURSIVE generate_quadratic_points(_, _, _, _, _, _, _, _)
generate_quadratic_points(m, p0, p1, p2, tolSqd, prev, head, pointsLeft) ==
    LET d == distanceToLineSegmentBetweenSqd(p1, p0, p2)
    IN  IF pointsLeft < 2 \/ below_tolerance(d, tolSqd)
        THEN append_point_to_contour(m, p2, prev, head)
        ELSE LET q0 == Ave(p0, p1)
                 q1 == Ave(p1, p2)
                 r  == Ave(q0, q1)
                 a  == generate_quadratic_points(m, p0, q0, r, tolSqd, prev, head,
                                                 pointsLeft \div 2)
             IN  generate_quadratic_points(a.m, r, q1, p2, tolSqd, a.v, a.head,
                                           pointsLeft \div 2)

RECURSIVE generate_cubic_points(_, _, _, _, _, _, _, _, _)
generate_cubic_points(m, p0, p1, p2, p3, tolSqd, prev, head, pointsLeft) ==
    LET d1 == distanceToLineSegmentBetweenSqd(p1, p0, p3)
        d2 == distanceToLineSegmentBetweenSqd(p2, p0, p3)
    IN  IF \/ pointsLeft < 2
           \/ (below_tolerance(d1, tolSqd) /\ below_tolerance(d2, tolSqd))
        THEN append_point_to_contour(m, p3, prev, head)
        ELSE LET q0 == Ave(p0, p1)
                 q1 == Ave(p1, p2)
                 q2 == Ave(p2, p3)
                 r0 == Ave(q0, q1)
                 r1 == Ave(q1, q2)
                 ss == Ave(r0, r1)
                 a  == generate_cubic_points(m, p0, q0, r0, ss, tolSqd, prev, head,
                                             pointsLeft \div 2)
             IN  generate_cubic_points(a.m, ss, r1, q2, p3, tolSqd, a.v, a.head,
                                       pointsLeft \div 2)

\* if (head) { head->fPrev = prev; prev->fNext = head; *contours++ = head; }
close_contour(w) ==
    IF w.head = 0 THEN w
    ELSE [w EXCEPT !.m.V[w.head].fPrev = w.prev,
                   !.m.V[w.prev].fNext = w.head,
                   !.contours = Append(@, w.head)]

\* SkRect::toQuad; a rect is [fLeft, fTop, fRight, fBottom]
toQuad(r) ==
    << <<r.fLeft, r.fTop>>, <<r.fRight, r.fTop>>,
       <<r.fRight, r.fBottom>>, <<r.fLeft, r.fBottom>> >>

SkPath_IsInverseFillType(fillType) ==
    fillType \in {"kInverseWinding_FillType", "kInverseEvenOdd_FillType"}

RECURSIVE path_to_contours_loop(_, _, _, _)
\* the while (!done) loop; w is [m, prev, head, contours, isLinear]
path_to_contours_loop(w, path, i, tolerance) ==
    IF i > Len(path) THEN close_contour(w)                       \* kDone_Verb
    ELSE
    LET verb == path[i].verb
        pts  == path[i].pts
        toleranceSqd == tolerance * tolerance
        w1 == CASE verb = "kMove_Verb" ->
                     LET c0 == close_contour(w)
                         a  == append_point_to_contour(c0.m, pts[1], 0, 0)
                     IN  [c0 EXCEPT !.m = a.m, !.prev = a.v, !.head = a.head]
                [] verb = "kLine_Verb" ->
                     LET a == append_point_to_contour(w.m, pts[2], w.prev, w.head)
                     IN  [w EXCEPT !.m = a.m, !.prev = a.v, !.head = a.head]
                [] verb = "kQuad_Verb" ->
                     LET a == generate_quadratic_points(w.m, pts[1], pts[2], pts[3],
                                  toleranceSqd, w.prev, w.head, path[i].pointsLeft)
                     IN  [w EXCEPT !.m = a.m, !.prev = a.v, !.head = a.head,
                                   !.isLinear = FALSE]
                [] verb = "kCubic_Verb" ->
                     LET a == generate_cubic_points(w.m, pts[1], pts[2], pts[3], pts[4],
                                  toleranceSqd, w.prev, w.head, path[i].pointsLeft)
                     IN  [w EXCEPT !.m = a.m, !.prev = a.v, !.head = a.head,
                                   !.isLinear = FALSE]
                [] verb = "kClose_Verb" ->
                     [close_contour(w) EXCEPT !.prev = 0, !.head = 0]
    IN  path_to_contours_loop(w1, path, i + 1, tolerance)

RECURSIVE clip_contour(_, _, _, _, _)
\* for (int i = 3; i >= 0; i--) prev = append_point_to_contour(quad[i], ...)
clip_contour(m, quad, i, prev, head) ==
    IF i < 0 THEN [m |-> m, v |-> prev, head |-> head]
    ELSE LET a == append_point_to_contour(m, quad[i + 1], prev, head)
         IN  clip_contour(a.m, quad, i - 1, a.v, a.head)

\* path_to_contours(path, tolerance, clipBounds, contours, alloc, isLinear):
\* the state, the contours written and *isLinear
path_to_contours(m, path, fillType, tolerance, clipBounds) ==
    LET w0 == [m |-> m, prev |-> 0, head |-> 0, contours |-> << >>,
               isLinear |-> TRUE]
        w1 == IF SkPath_IsInverseFillType(fillType)
              THEN LET a == clip_contour(m, toQuad(clipBounds), 3, 0, 0)
                   IN  [close_contour([w0 EXCEPT !.m = a.m, !.prev = a.v,
                                                 !.head = a.head])
                        EXCEPT !.prev = 0, !.head = 0]
              ELSE w0
    IN  path_to_contours_loop(w1, path, 1, tolerance)

----------------------------------------------------------------------------
(***************************************************************************)
(* The entry points.                                                       *)
(***************************************************************************)
SK_MaxU16 == 65535

\* a get_contour_count that lets a path without points through, and one
\* without the limit of SK_MaxU16 + 1 points; the rejections of C5 and of
\* C6 must tell them from get_contour_count
get_contour_count_from_zero(maxPts, contourCnt) ==
    IF maxPts < 0 THEN 0
    ELSE IF maxPts > SK_MaxU16 + 1 THEN 0
    ELSE contourCnt

get_contour_count_unlimited(maxPts, contourCnt) ==
    IF maxPts <= 0 THEN 0 ELSE contourCnt

\* get_contour_count(path, tolerance); maxPts and contourCnt are what
\* GrPathUtils::worstCasePointCount reports for the path
get_contour_count(maxPts, contourCnt) ==
    IF maxPts <= 0 THEN 0
    ELSE IF maxPts > SK_MaxU16 + 1 THEN 0
    ELSE contourCnt

\* SkPath::getBounds: the bounds of the points of the path
RECURSIVE path_points(_, _)
path_points(path, i) ==
    IF i > Len(path) THEN {}
    ELSE {path[i].pts[k] : k \in 1..Len(path[i].pts)} \cup path_points(path, i + 1)

getBounds(path) ==
    LET ps == path_points(path, 1)
    IN  IF ps = {} THEN [fLeft |-> 0, fTop |-> 0, fRight |-> 0, fBottom |-> 0]
        ELSE [fLeft   |-> CHOOSE x \in {q[1] : q \in ps} : \A q \in ps : x <= q[1],
              fTop    |-> CHOOSE y \in {q[2] : q \in ps} : \A q \in ps : y <= q[2],
              fRight  |-> CHOOSE x \in {q[1] : q \in ps} : \A q \in ps : x >= q[1],
              fBottom |-> CHOOSE y \in {q[2] : q \in ps} : \A q \in ps : y >= q[2]]

\* Comparator c(pathBounds.width() > pathBounds.height() ? ...) in
\* contours_to_polys
Comparator(pathBounds) ==
    IF pathBounds.fRight - pathBounds.fLeft > pathBounds.fBottom - pathBounds.fTop
    THEN "kHorizontal" ELSE "kVertical"

\* the fill type of the path also when antialiasing; the emission of C7
\* must tell it from emit_fillType
emit_fillType_of_path(entry, antialias, fillType) == fillType

\* the fill type PathToTriangles and PathToVertices count and emit with
emit_fillType(entry, antialias, fillType) ==
    IF entry = "PathToTriangles" /\ antialias THEN "kWinding_FillType" ELSE fillType

\* const AAParams* of polys_to_triangles in PathToTriangles
emit_aaParams(antialias, canTweakAlphaForCoverage) ==
    IF ~antialias THEN "null"
    ELSE IF canTweakAlphaForCoverage THEN "tweak" ELSE "coverage"

----------------------------------------------------------------------------
(***************************************************************************)
(* The state machine: one call of an entry point on one input.             *)
(*                                                                         *)
(*   in        the arguments: entry, path, fillType, antialias, tolerance, *)
(*             clipBounds, canTweakAlphaForCoverage, and maxPts and        *)
(*             contourCnt, the two results of worstCasePointCount          *)
(*   pc        the stage the call is at                                    *)
(*   m         the arena and the lists (NewState before the arena exists)  *)
(*   c         the Comparator's direction                                  *)
(*   contours  the contours written by path_to_contours                    *)
(*   v         the vertex the sweep of simplify or tessellate is at        *)
(*   restartChecks  simplify is inside its do-while, about to run it again *)
(*   isLinear  the caller's *isLinear: << >> until the call writes it      *)
(*   count     the result of count_points                                  *)
(*   ret       the value returned (meaningful once pc = "done")           *)
(*   data      the vertices written to the locked region or the array      *)
(*   calls     the calls made on the VertexAllocator and the writes to its *)
(*             region, in order                                            *)
(*   verts     the caller's *verts of PathToVertices                       *)
(*   via       a call of ViaTwice::draw of the test harness: what it was   *)
(*             called with, where it is, what has been done on the canvas  *)
(*             and what it returns (meaningful once its pc is "done")      *)
(***************************************************************************)
VARIABLES in, pc, m, c, contours, v, restartChecks, isLinear, count, ret,
          data, calls, verts, via

vars == << in, pc, m, c, contours, v, restartChecks, isLinear, count, ret,
           data, calls, verts, via >>

\* int contourCnt = get_contour_count(path, tolerance);
\* if (contourCnt <= 0) { *isLinear = true; return 0; }
GetContourCount ==
    /\ pc = "get_contour_count"
    /\ IF get_contour_count(in.maxPts, in.contourCnt) <= 0
       THEN /\ pc' = "done"
            /\ ret' = 0
            /\ isLinear' = IF in.entry = "PathToTriangles" THEN << TRUE >> ELSE isLinear
       ELSE /\ pc' = "path_to_contours"
            /\ UNCHANGED << ret, isLinear >>
    /\ UNCHANGED << via, in, m, c, contours, v, restartChecks, count, data, calls, verts >>

\* a path_to_polys that reports every path as linear; the flag of C3 must
\* tell it from PathToContours
PathToContours_linear ==
    /\ pc = "path_to_contours"
    /\ \E w \in { path_to_contours(NewState, in.path, in.fillType, in.tolerance,
                                     in.clipBounds) } :
           /\ m' = w.m
           /\ contours' = w.contours
           /\ isLinear' = IF in.entry = "PathToTriangles" THEN << TRUE >>
                          ELSE isLinear
    /\ pc' = "contours_to_mesh"
    /\ UNCHANGED << via, in, c, v, restartChecks, count, ret, data, calls, verts >>

\* path_to_polys up to the call of contours_to_polys
PathToContours ==
    /\ pc = "path_to_contours"
    /\ \E w \in { path_to_contours(NewState, in.path, in.fillType, in.tolerance,
                                     in.clipBounds) } :
           /\ m' = w.m
           /\ contours' = w.contours
           /\ isLinear' = IF in.entry = "PathToTriangles" THEN << w.isLinear >>
                          ELSE isLinear
    /\ pc' = "contours_to_mesh"
    /\ UNCHANGED << via, in, c, v, restartChecks, count, ret, data, calls, verts >>

\* contours_to_polys: the Comparator and contours_to_mesh
ContoursToMesh ==
    /\ pc = "contours_to_mesh"
    /\ c' = Comparator(getBounds(in.path))
    /\ m' = contours_to_mesh(m, contours, in.antialias, c')
    /\ pc' = "sort_and_simplify"
    /\ UNCHANGED << via, in, contours, v, restartChecks, isLinear, count, ret, data, calls, verts >>

\* what follows a call of sort_and_simplify in contours_to_polys: the
\* boundaries of the first mesh when antialiasing, else tessellate, which
\* starts from an empty active edge list and, on an empty mesh, is over
AfterSimplify(mm, first) ==
    IF in.antialias /\ first
    THEN [pc |-> "extract_boundaries", m |-> mm, v |-> 0]
    ELSE [pc |-> IF mm.mesh.fHead = 0 THEN "count_points" ELSE "tessellate",
          m  |-> [mm EXCEPT !.activeEdges = EmptyList],
          v  |-> mm.mesh.fHead]

\* sort_and_simplify up to the call of simplify
SortAndMerge ==
    /\ pc \in {"sort_and_simplify", "sort_and_simplify_aa"}
    /\ IF m.mesh.fHead = 0
       THEN \E n \in { AfterSimplify(m, pc = "sort_and_simplify") } :
               pc' = n.pc /\ m' = n.m /\ v' = n.v
       ELSE \E r \in { merge_sort(m.V, m.mesh, c) } :
            \E m1 \in { merge_coincident_vertices(
                             [m EXCEPT !.V = r.V, !.mesh = r.list], c) } :
               /\ m' = [m1 EXCEPT !.activeEdges = EmptyList]
               /\ v' = m1.mesh.fHead
               /\ pc' = IF pc = "sort_and_simplify" THEN "simplify" ELSE "simplify_aa"
    /\ UNCHANGED << via, in, c, contours, restartChecks, isLinear, count, ret, data,
                    calls, verts >>

\* contours_to_polys when antialiasing: extract_boundaries(mesh, &aaMesh,
\* fillType, c, alloc); sort_and_simplify goes on with aaMesh
ExtractBoundaries ==
    /\ pc = "extract_boundaries"
    /\ \E r \in { extract_boundaries(m, in.fillType, c) } :
           m' = [r.m EXCEPT !.mesh = r.mesh]
    /\ pc' = "sort_and_simplify_aa"
    /\ UNCHANGED << via, in, c, contours, v, restartChecks, isLinear, count, ret, data,
                    calls, verts >>

\* a sweep that starts again at the head of the list when it reaches the
\* end; the termination of C22 must tell it from SimplifyNext
SimplifyNext_again(mm, u) ==
    [pc |-> pc, m |-> mm,
     v |-> IF mm.V[u].fNext # 0 THEN mm.V[u].fNext ELSE mm.mesh.fHead]

\* where the loop of simplify goes after the body for vertex u
SimplifyNext(mm, u) ==
    IF mm.V[u].fNext # 0
    THEN [pc |-> pc, m |-> mm, v |-> mm.V[u].fNext]
    ELSE AfterSimplify(mm, pc = "simplify")

\* simplify: an iteration of the do-while that finds an intersection
SimplifyRestart ==
    /\ pc \in {"simplify", "simplify_aa"}
    /\ restartChecks \/ m.V[v].fFirstEdgeAbove # 0 \/ m.V[v].fFirstEdgeBelow # 0
    /\ \E r \in { simplify_checks(m, v, c) } :
           /\ r.restartChecks
           /\ m' = r.m
           /\ v' = r.v
    /\ restartChecks' = TRUE
    /\ UNCHANGED << via, in, pc, c, contours, isLinear, count, ret, data, calls, verts >>

\* simplify: the loop body for one vertex, which is the `continue' for a
\* vertex with no edge, and else the iteration of the do-while that finds
\* no intersection and the rest of the body
SimplifyVertex ==
    /\ pc \in {"simplify", "simplify_aa"}
    /\ IF ~restartChecks /\ m.V[v].fFirstEdgeAbove = 0 /\ m.V[v].fFirstEdgeBelow = 0
       THEN \E n \in { SimplifyNext(m, v) } :
               pc' = n.pc /\ m' = n.m /\ v' = n.v
       ELSE \E r \in { simplify_checks(m, v, c) } :
               /\ ~r.restartChecks
               /\ \E n \in { SimplifyNext(simplify_finish(r.m, r.v, r.left, r.right),
                                          r.v) } :
                      pc' = n.pc /\ m' = n.m /\ v' = n.v
    /\ restartChecks' = FALSE
    /\ UNCHANGED << via, in, c, contours, isLinear, count, ret, data, calls, verts >>

\* tessellate: the loop body for one vertex
Tessellate ==
    /\ pc = "tessellate"
    /\ m' = tessellate_vertex(m, v)
    /\ v' = m.V[v].fNext
    /\ pc' = IF v' = 0 THEN "count_points" ELSE pc
    /\ UNCHANGED << via, in, c, contours, restartChecks, isLinear, count, ret, data,
                    calls, verts >>

\* int count = count_points(polys, fillType); if (0 == count) ...
CountPoints ==
    /\ pc = "count_points"
    /\ count' = count_points(m, m.polys,
                             emit_fillType(in.entry, in.antialias, in.fillType))
    /\ IF count' = 0
       THEN /\ pc' = "done"
            /\ ret' = 0
            /\ verts' = IF in.entry = "PathToVertices" THEN "nullptr" ELSE verts
       ELSE /\ pc' = IF in.entry = "PathToTriangles" THEN "lock" ELSE "new"
            /\ UNCHANGED << ret, verts >>
    /\ UNCHANGED << via, in, m, c, contours, v, restartChecks, isLinear, data, calls >>

\* a PathToTriangles that goes on when lock returns null; the protocol of
\* C2 must tell it from Lock
Lock_unchecked ==
    /\ pc = "lock"
    /\ \E region \in BOOLEAN :
          calls' = Append(calls, [op |-> "lock", n |-> count, ok |-> region])
    /\ pc' = "polys_to_triangles"
    /\ UNCHANGED << via, in, m, c, contours, v, restartChecks, isLinear, count, ret,
                    data, verts >>

\* PathToTriangles: void* verts = vertexAllocator->lock(count); the
\* allocator hands out a region or fails
Lock ==
    /\ pc = "lock"
    /\ \E region \in BOOLEAN :
          /\ calls' = Append(calls, [op |-> "lock", n |-> count, ok |-> region])
          /\ IF region
             THEN pc' = "polys_to_triangles" /\ ret' = ret
             ELSE pc' = "done" /\ ret' = 0
    /\ UNCHANGED << via, in, m, c, contours, v, restartChecks, isLinear, count, data, verts >>

\* PathToTriangles: polys_to_triangles, unlock and the return
PolysToTriangles ==
    /\ pc = "polys_to_triangles"
    /\ \E r \in { polys_to_triangles([m |-> m, data |-> << >>], m.polys,
                       emit_fillType(in.entry, in.antialias, in.fillType),
                       emit_aaParams(in.antialias, in.canTweakAlphaForCoverage)) } :
       LET actualCount == Len(r.data)
       IN  /\ data' = r.data
           /\ m' = SkASSERT(r.m, actualCount <= count, 2481)
           /\ calls' = calls
                       \o [i \in 1..actualCount |-> [op |-> "write", n |-> i, ok |-> TRUE]]
                       \o << [op |-> "unlock", n |-> actualCount, ok |-> TRUE] >>
           /\ ret' = actualCount
    /\ pc' = "done"
    /\ UNCHANGED << via, in, c, contours, v, restartChecks, isLinear, count, verts >>

RECURSIVE emit_every_poly(_, _, _, _)
\* a loop of PathToVertices that emits every Poly whatever its winding;
\* the fill rule of C4 must tell it from emit_winding_vertices
emit_every_poly(mm, poly, fillType, vertsEnd) ==
    IF poly = 0 THEN [m |-> mm, data |-> vertsEnd]
    ELSE LET winding(r) ==
                 [i \in 1..Len(r.data) |->
                     [fPos |-> r.data[i].fPosition,
                      fWinding |-> mm.P[poly].fWinding, poly |-> poly]]
             emitted(r) ==
                 emit_every_poly(r.m, mm.P[poly].fNext, fillType,
                                 vertsEnd \o winding(r))
         IN  emitted(Poly_emit([m |-> mm, data |-> << >>], poly, "null"))

RECURSIVE emit_winding_vertices(_, _, _, _)
\* the loop of PathToVertices over the polys; each WindingVertex carries
\* the position and the winding of the Poly it was emitted for
emit_winding_vertices(mm, poly, fillType, vertsEnd) ==
    IF poly = 0 THEN [m |-> mm, data |-> vertsEnd]
    ELSE IF apply_fill_type_poly(mm, fillType, poly)
    THEN LET winding(r) ==
                 [i \in 1..Len(r.data) |->
                     [fPos |-> r.data[i].fPosition,
                      fWinding |-> mm.P[poly].fWinding, poly |-> poly]]
             emitted(r) ==
                 emit_winding_vertices(r.m, mm.P[poly].fNext, fillType,
                                       vertsEnd \o winding(r))
         IN  emitted(Poly_emit([m |-> mm, data |-> << >>], poly, "null"))
    ELSE emit_winding_vertices(mm, mm.P[poly].fNext, fillType, vertsEnd)

\* PathToVertices from *verts = new WindingVertex[count] to the return
NewVertices ==
    /\ pc = "new"
    /\ \E r \in { emit_winding_vertices(m, m.polys, in.fillType, << >>) } :
       LET actualCount == Len(r.data)
       IN  /\ data' = r.data
           /\ m' = SkASSERT(r.m, actualCount <= count, 2519)
           /\ ret' = actualCount
    /\ verts' = "array"
    /\ pc' = "done"
    /\ UNCHANGED << via, in, c, contours, v, restartChecks, isLinear, count, calls >>

----------------------------------------------------------------------------
(***************************************************************************)
(* The inputs.                                                             *)
(***************************************************************************)
\* the verbs SkPath::Iter yields for moveTo(pts[1]), lineTo(pts[2]), ...
LinearContour(pts) ==
    << [verb |-> "kMove_Verb", pts |-> << pts[1] >>] >>
    \o [i \in 1..(Len(pts) - 1) |->
           [verb |-> "kLine_Verb", pts |-> << pts[i], pts[i + 1] >>]]

\* worstCasePointCount of a path without curves: one point per move and
\* per line, one subpath per move
LinearInput(entry, path, fillType, antialias) ==
    [entry |-> entry, path |-> path, fillType |-> fillType,
     antialias |-> antialias, canTweakAlphaForCoverage |-> FALSE,
     tolerance |-> 1,
     clipBounds |-> [fLeft |-> -1, fTop |-> -1,
                     fRight |-> MaxCoord + 1, fBottom |-> MaxCoord + 1],
     maxPts |-> Len(path),
     contourCnt |-> Cardinality({i \in 1..Len(path) : path[i].verb = "kMove_Verb"})]

\* the two point sets the straight contours are drawn through
PaletteA == << <<3, 0>>, <<0, 0>>, <<2, 3>>, <<1, 0>>, <<1, 2>>, <<0, 1>> >>

PaletteB == << <<0, 0>>, <<1, 0>>, <<2, 1>>, <<0, 2>>, <<1, 2>>, <<1, 3>> >>

\* the closed polylines through n distinct points of a palette, each ring
\* of points once (it starts at its point of least index)
Contours(palette, n) ==
    { [i \in 1..n |-> palette[f[i]]] :
        f \in { g \in [1..n -> 1..Len(palette)] :
                  /\ \A i, j \in 1..n : i # j => g[i] # g[j]
                  /\ \A i \in 2..n : g[1] < g[i] } }

ContoursOf(lengths) ==
    UNION { Contours(PaletteA, n) \cup Contours(PaletteB, n) : n \in lengths }

Entries == {"PathToTriangles", "PathToVertices"}

FillTypes == {"kWinding_FillType", "kEvenOdd_FillType",
              "kInverseWinding_FillType", "kInverseEvenOdd_FillType"}

\* a contour scaled by k
Scaled(pts, k) == [i \in 1..Len(pts) |-> << k * pts[i][1], k * pts[i][2] >>]

\* without antialiasing: the short contours under every fill type through
\* both entry points, the long ones under the non-zero rule through
\* PathToTriangles and under the even-odd rule through PathToVertices
PlainInputs ==
    { LinearInput(e, LinearContour(pts), f, FALSE) :
        e \in Entries, f \in FillTypes, pts \in ContoursOf(3..ShortLen) }
    \cup
    { LinearInput("PathToTriangles", LinearContour(pts), "kWinding_FillType", FALSE) :
        pts \in ContoursOf((ShortLen + 1)..MaxLen) }
    \cup
    { LinearInput("PathToVertices", LinearContour(pts), "kEvenOdd_FillType", FALSE) :
        pts \in ContoursOf((ShortLen + 1)..MaxLen) }

\* with antialiasing: the contours of up to AALen points, AAScale times
\* as large (and the clip with them), under every fill type
AAInputs ==
    { [LinearInput("PathToTriangles", LinearContour(Scaled(pts, AAScale)), f, TRUE)
         EXCEPT !.clipBounds = [fLeft |-> -1, fTop |-> -1,
                                fRight |-> AAScale * MaxCoord + 1,
                                fBottom |-> AAScale * MaxCoord + 1]] :
        f \in FillTypes, pts \in ContoursOf(3..AALen) }

\* paths for which worstCasePointCount reports a count at the limits of
\* get_contour_count, and the empty path, for which it reports no point
\* and no contour
CountInputs ==
    { [LinearInput(e, LinearContour(<< <<0, 0>>, <<3, 0>>, <<0, 3>> >>),
                   "kWinding_FillType", FALSE) EXCEPT !.maxPts = n] :
        e \in Entries,
        n \in {-1, 0, 1, SK_MaxU16, SK_MaxU16 + 1, SK_MaxU16 + 2, 2147483647} }
    \cup
    { LinearInput(e, << >>, f, FALSE) : e \in Entries, f \in FillTypes }

\* a contour with a quadratic, one with a cubic, one with both
QuadContour ==
    << [verb |-> "kMove_Verb", pts |-> << <<0, 0>> >>],
       [verb |-> "kQuad_Verb", pts |-> << <<0, 0>>, <<3, 0>>, <<3, 3>> >>,
        pointsLeft |-> 4],
       [verb |-> "kLine_Verb", pts |-> << <<3, 3>>, <<0, 3>> >>],
       [verb |-> "kClose_Verb", pts |-> << >>] >>

CubicContour ==
    << [verb |-> "kMove_Verb", pts |-> << <<0, 0>> >>],
       [verb |-> "kCubic_Verb",
        pts |-> << <<0, 0>>, <<3, 0>>, <<3, 3>>, <<0, 3>> >>, pointsLeft |-> 4],
       [verb |-> "kLine_Verb", pts |-> << <<0, 3>>, <<1, 1>> >>] >>

\* a quadratic and a cubic whose control points lie at the tolerance from
\* the chord, neither nearer nor farther
TouchingQuadContour ==
    << [verb |-> "kMove_Verb", pts |-> << <<0, 0>> >>],
       [verb |-> "kQuad_Verb", pts |-> << <<0, 0>>, <<1, 1>>, <<0, 2>> >>,
        pointsLeft |-> 3],
       [verb |-> "kLine_Verb", pts |-> << <<0, 2>>, <<3, 1>> >>],
       [verb |-> "kClose_Verb", pts |-> << >>] >>

TouchingCubicContour ==
    << [verb |-> "kMove_Verb", pts |-> << <<0, 0>> >>],
       [verb |-> "kCubic_Verb",
        pts |-> << <<0, 0>>, <<1, 1>>, <<1, 2>>, <<0, 3>> >>, pointsLeft |-> 4],
       [verb |-> "kLine_Verb", pts |-> << <<0, 3>>, <<3, 1>> >>],
       [verb |-> "kClose_Verb", pts |-> << >>] >>

\* the curved paths, each with a count within the limit and with one over it
CurveInputs ==
    { [LinearInput(e, path, f, FALSE) EXCEPT !.maxPts = n] :
        e \in Entries, f \in {"kWinding_FillType", "kInverseEvenOdd_FillType"},
        path \in {QuadContour, CubicContour, QuadContour \o CubicContour,
                  TouchingQuadContour, TouchingCubicContour},
        n \in {16, SK_MaxU16 + 2} }

(***************************************************************************)
(* Paths with corners at whole coordinates whose edges cross, if at all,   *)
(* at whole coordinates.  No intersection point is rounded on them and     *)
(* every value computed is a whole number, so that their coordinates read  *)
(* in any unit, whole pixels at the origin included.                       *)
(***************************************************************************)
\* the corners of an octagon, in order round it
Octagon == << <<1, 0>>, <<2, 0>>, <<3, 1>>, <<3, 2>>,
              <<2, 3>>, <<1, 3>>, <<0, 2>>, <<0, 1>> >>

Reversed(pts) == [i \in 1..Len(pts) |-> pts[Len(pts) + 1 - i]]

\* the convex polygons through n corners of the octagon, in both senses
ConvexContours(n) ==
    UNION { { [i \in 1..n |-> Octagon[f[i]]],
              Reversed([i \in 1..n |-> Octagon[f[i]]]) } :
            f \in { g \in [1..n -> 1..Len(Octagon)] :
                      \A i \in 1..(n - 1) : g[i] < g[i + 1] } }

ConvexInputs ==
    { LinearInput("PathToTriangles", LinearContour(pts), f, FALSE) :
        f \in {"kWinding_FillType", "kEvenOdd_FillType"},
        pts \in UNION { ConvexContours(n) : n \in 3..ConvexLen } }

\* a path of several contours
RECURSIVE LinearPath(_)
LinearPath(contourPts) ==
    IF contourPts = << >> THEN << >>
    ELSE LinearContour(Head(contourPts)) \o LinearPath(Tail(contourPts))

\* the square, the square round a reverse-wound inner square, the square
\* with a corner in the middle of a side, the figure-8 that crosses at
\* (5, 5), a contour of a single point and a contour of a single segment
Square == << <<0, 0>>, <<10, 0>>, <<10, 10>>, <<0, 10>> >>

InnerSquare == << <<2, 2>>, <<8, 2>>, <<8, 8>>, <<2, 8>> >>

CollinearSquare == << <<0, 0>>, <<5, 0>>, <<10, 0>>, <<10, 10>>, <<0, 10>> >>

FigureEight == << <<0, 0>>, <<10, 10>>, <<10, 0>>, <<0, 10>> >>

SinglePoint == << <<5, 5>> >>

SingleSegment == << <<0, 0>>, <<10, 10>> >>

ScenarioPaths ==
    { LinearPath(<< Square >>), LinearPath(<< Reversed(Square) >>),
      LinearPath(<< Square, Reversed(InnerSquare) >>),
      LinearPath(<< CollinearSquare >>), LinearPath(<< FigureEight >>),
      LinearPath(<< SinglePoint >>), LinearPath(<< SingleSegment >>) }

ScenarioInputs ==
    { LinearInput(e, path, f, FALSE) :
        e \in Entries, f \in {"kWinding_FillType", "kEvenOdd_FillType"},
        path \in ScenarioPaths }

\* the contours without area, under every fill rule, with and without
\* antialiasing (PathToVertices never antialiases)
DegenerateInputs ==
    { LinearInput(e, LinearPath(<< pts >>), f, FALSE) :
        e \in Entries, f \in FillTypes, pts \in {SinglePoint, SingleSegment} }
    \cup
    { LinearInput("PathToTriangles", LinearPath(<< pts >>), f, TRUE) :
        f \in FillTypes, pts \in {SinglePoint, SingleSegment} }

\* paths that visit a point more than once: a triangle next to a contour
\* of a palette, which has (0, 0) or (3, 0) or both, and the triangle
\* three times over
SharedTriangle == << <<0, 0>>, <<3, 0>>, <<0, 3>> >>

SharedInputs ==
    { LinearInput("PathToTriangles", LinearPath(<< SharedTriangle, pts >>),
                  "kWinding_FillType", FALSE) : pts \in ContoursOf(3..SharedLen) }
    \cup
    { LinearInput("PathToVertices",
                  LinearPath(<< SharedTriangle, SharedTriangle, SharedTriangle >>),
                  "kEvenOdd_FillType", FALSE) }

\* with antialiasing, a bow-tie whose corners lie on the grid of quarter
\* pixels and whose sides cross at (6, 3), off that grid
BowTie == << <<0, 0>>, <<12, 6>>, <<12, 0>>, <<0, 6>> >>

CrossingInputs ==
    { [LinearInput("PathToTriangles", LinearContour(BowTie), f, TRUE)
         EXCEPT !.clipBounds = [fLeft |-> -1, fTop |-> -1,
                                fRight |-> 13, fBottom |-> 13]] :
        f \in {"kWinding_FillType", "kEvenOdd_FillType"} }

Inputs ==
    PlainInputs \cup AAInputs \cup CountInputs \cup CurveInputs
    \cup ConvexInputs \cup ScenarioInputs \cup DegenerateInputs
    \cup SharedInputs \cup CrossingInputs

Init ==
    /\ in \in Inputs
    /\ pc = "get_contour_count"
    /\ m = NewState
    /\ c = "kVertical"
    /\ contours = << >>
    /\ v = 0
    /\ restartChecks = FALSE
    /\ isLinear = << >>
    /\ count = 0
    /\ ret = 0
    /\ data = << >>
    /\ calls = << >>
    /\ verts = "unassigned"
    /\ via = [pc |-> "idle"]

Next ==
    \/ GetContourCount
    \/ PathToContours
    \/ ContoursToMesh
    \/ SortAndMerge
    \/ ExtractBoundaries
    \/ SimplifyRestart
    \/ SimplifyVertex
    \/ Tessellate
    \/ CountPoints
    \/ Lock
    \/ PolysToTriangles
    \/ NewVertices

Spec == Init /\ [][Next]_vars

----------------------------------------------------------------------------
(***************************************************************************)
(* The test harness: ViaTwice::draw.  An Error is a string, the empty      *)
(* string for no error.  A call is given by what it meets: what src.draw   *)
(* returns on its first and on its second call on the canvas, FLAGS_check, *)
(* whether bitmap is non-null, and what the reference drawn by             *)
(* check_against_reference comes to.  The Sink is taken to call the        *)
(* ProxySrc's draw once on its canvas and to return what that returns.     *)
(***************************************************************************)
Errors == {"", "draw failed"}

ViaTwiceCalls ==
    [drawErr : [1..2 -> Errors], FLAGS_check : BOOLEAN, bitmap : BOOLEAN,
     refErr : Errors, sameSize : BOOLEAN, samePixels : BOOLEAN]

\* Error::isEmpty
isEmpty(err) == err = ""

\* check_against_reference(bitmap, src, sink)
check_against_reference(call) ==
    IF call.FLAGS_check /\ call.bitmap
    THEN IF ~isEmpty(call.refErr) THEN call.refErr
         ELSE IF ~call.sameSize THEN "Dimensions don't match reference"
         ELSE IF ~call.samePixels THEN "Pixels don't match reference"
         ELSE ""
    ELSE ""

\* the variables of the tessellator, which the harness leaves alone
tessellator == << in, pc, m, c, contours, v, restartChecks, isLinear, count, ret,
                 data, calls, verts >>

\* one iteration of for (int i = 0; i < 2; i++): the SkAutoCanvasRestore
\* saves, the canvas is cleared, src is drawn, the error is tested, and the
\* SkAutoCanvasRestore restores as the block is left
ViaTwiceIterate ==
    /\ via.pc = "for"
    /\ via.i < 2
    /\ \E err \in { via.call.drawErr[via.i + 1] } :
           via' = [via EXCEPT
                      !.canvas = @ \o << "save", "clear", "draw", "restore" >>,
                      !.i   = IF isEmpty(err) THEN @ ELSE @ + 1,
                      !.pc  = IF isEmpty(err) THEN "done" ELSE "for",
                      !.ret = IF isEmpty(err) THEN err ELSE @]
    /\ UNCHANGED tessellator

\* return check_against_reference(bitmap, src, fSink.get());
ViaTwiceCheck ==
    /\ via.pc = "for"
    /\ via.i >= 2
    /\ via' = [via EXCEPT !.checked = TRUE,
                          !.ret = check_against_reference(via.call),
                          !.pc = "done"]
    /\ UNCHANGED tessellator

ViaInit ==
    /\ in = LinearInput("PathToTriangles", << >>, "kWinding_FillType", FALSE)
    /\ pc = "get_contour_count"
    /\ m = NewState
    /\ c = "kVertical"
    /\ contours = << >>
    /\ v = 0
    /\ restartChecks = FALSE
    /\ isLinear = << >>
    /\ count = 0
    /\ ret = 0
    /\ data = << >>
    /\ calls = << >>
    /\ verts = "unassigned"
    /\ \E call \in ViaTwiceCalls :
           via = [pc |-> "for", call |-> call, i |-> 0, canvas |-> << >>,
                  checked |-> FALSE, ret |-> ""]

ViaNext == ViaTwiceIterate \/ ViaTwiceCheck

ViaSpec == ViaInit /\ [][ViaNext]_vars

----------------------------------------------------------------------------
(***************************************************************************)
(* The properties.  A call has returned when pc = "done".                  *)
(***************************************************************************)
RECURSIVE PolysFrom(_, _)
\* the Polys of the list that starts at `poly'
PolysFrom(mm, poly) ==
    IF poly = 0 THEN {} ELSE {poly} \cup PolysFrom(mm, mm.P[poly].fNext)

RECURSIVE VerticesFrom(_, _)
\* the Vertices of the list that starts at u
VerticesFrom(mm, u) ==
    IF u = 0 THEN {} ELSE {u} \cup VerticesFrom(mm, mm.V[u].fNext)

RECURSIVE EdgesAboveFrom(_, _)
EdgesAboveFrom(mm, e) ==
    IF e = 0 THEN {} ELSE {e} \cup EdgesAboveFrom(mm, mm.E[e].fNextEdgeAbove)

RECURSIVE EdgesBelowFrom(_, _)
EdgesBelowFrom(mm, e) ==
    IF e = 0 THEN {} ELSE {e} \cup EdgesBelowFrom(mm, mm.E[e].fNextEdgeBelow)

EdgesAbove(mm, u) == EdgesAboveFrom(mm, mm.V[u].fFirstEdgeAbove)

EdgesBelow(mm, u) == EdgesBelowFrom(mm, mm.V[u].fFirstEdgeBelow)

\* the edges linked into the edges-above or edges-below list of a vertex
\* of the arena, and of a vertex of the mesh
ArenaEdges(mm) ==
    UNION { EdgesAbove(mm, u) \cup EdgesBelow(mm, u) : u \in 1..Len(mm.V) }

MeshEdges(mm) ==
    UNION { EdgesAbove(mm, u) \cup EdgesBelow(mm, u) :
              u \in VerticesFrom(mm, mm.mesh.fHead) }

\* the positions Poly::emit writes for a Poly, three to the triangle
TrianglesOf(mm, poly) ==
    [i \in 1..Len(Poly_emit([m |-> mm, data |-> << >>], poly, "null").data) |->
        Poly_emit([m |-> mm, data |-> << >>], poly, "null").data[i].fPosition]

\* what the call wrote for a Poly
WrittenFor(poly) == SelectSeq(data, LAMBDA d : d.poly = poly)

LockCalls == { i \in 1..Len(calls) : calls[i].op = "lock" }

WriteCalls == { i \in 1..Len(calls) : calls[i].op = "write" }

UnlockCalls == { i \in 1..Len(calls) : calls[i].op = "unlock" }

HasCurve(path) ==
    \E i \in 1..Len(path) :
        path[i].verb \in {"kQuad_Verb", "kConic_Verb", "kCubic_Verb"}

\* C1: the vertices written never exceed what was reserved: in
\* PathToTriangles neither a write nor the count passed to unlock goes past
\* the count passed to lock, in PathToVertices the records written fit the
\* array of `count' records, the two SkASSERT(actualCount <= count) hold,
\* and every Poly of at least 3 vertices emits at most fCount - 2 triangles
\* over all its MonotonePolys.
C1_WrittenWithinReserved ==
    /\ \A l \in LockCalls : \A i \in WriteCalls \cup UnlockCalls :
           calls[i].n <= calls[l].n
    /\ verts = "array" => Len(data) <= count
    /\ pc = "done" => ret = Len(data)
    /\ 2481 \notin m.asserts /\ 2519 \notin m.asserts
    /\ pc = "count_points" =>
           \A poly \in PolysFrom(m, m.polys) :
               m.P[poly].fCount >= 3 =>
                   Len(TrianglesOf(m, poly)) <= 3 * (m.P[poly].fCount - 2)

\* a call that wrote triangles of a Poly made of more than one MonotonePoly
C1_Witness ==
    /\ pc = "done" /\ ret > 0 /\ ret <= count
    /\ \E poly \in PolysFrom(m, m.polys) :
           /\ m.P[poly].fHead # m.P[poly].fTail
           /\ WrittenFor(poly) # << >>

\* C2: the allocator protocol of PathToTriangles: lock is called at most
\* once, first, and with a count above 0; every write follows a lock that
\* returned a region and precedes the unlock; unlock is called at most
\* once, and once the call has returned exactly once iff lock returned a
\* region; when lock returns null the call returns 0 with no unlock and no
\* write.
C2_AllocatorProtocol ==
    /\ Cardinality(LockCalls) <= 1
    /\ \A l \in LockCalls : l = 1 /\ calls[l].n > 0 /\ calls[l].n = count
    /\ \A i \in WriteCalls : \E l \in LockCalls : l < i /\ calls[l].ok
    /\ \A i \in WriteCalls : \A u \in UnlockCalls : i < u
    /\ Cardinality(UnlockCalls) <= 1
    /\ \A u \in UnlockCalls : u = Len(calls) /\ calls[u].n = Cardinality(WriteCalls)
    /\ pc = "done" =>
           (UnlockCalls # {} <=> \E l \in LockCalls : calls[l].ok)
    /\ \A l \in LockCalls :
           ~calls[l].ok => /\ UnlockCalls = {} /\ WriteCalls = {}
                           /\ pc = "done" /\ ret = 0 /\ data = << >>
    /\ in.entry = "PathToVertices" => calls = << >>

\* a call that locked, wrote and unlocked
C2_Witness ==
    /\ pc = "done" /\ in.entry = "PathToTriangles"
    /\ WriteCalls # {} /\ UnlockCalls # {}
    /\ calls[1].op = "lock" /\ calls[1].ok

C4_EveryPolyEmitted ==
    pc = "done" /\ in.entry = "PathToVertices" =>
        \A poly \in PolysFrom(m, m.polys) :
            /\ [i \in 1..Len(WrittenFor(poly)) |-> WrittenFor(poly)[i].fPos]
                   = TrianglesOf(m, poly)
            /\ \A i \in 1..Len(WrittenFor(poly)) :
                   WrittenFor(poly)[i].fWinding = m.P[poly].fWinding

\* C4, amended: PathToVertices applies the fill rule of the path: the
\* array holds the triangles of the Polys whose winding the rule accepts,
\* each record with the winding of its Poly, and no record of a Poly whose
\* winding the rule rejects.
C4_AcceptedPolysEmitted ==
    pc = "done" /\ in.entry = "PathToVertices" =>
        /\ \A poly \in PolysFrom(m, m.polys) :
              /\ [i \in 1..Len(WrittenFor(poly)) |-> WrittenFor(poly)[i].fPos]
                     = IF apply_fill_type(in.fillType, m.P[poly].fWinding)
                       THEN TrianglesOf(m, poly) ELSE << >>
              /\ \A i \in 1..Len(WrittenFor(poly)) :
                     WrittenFor(poly)[i].fWinding = m.P[poly].fWinding
        /\ \A i \in 1..Len(data) : data[i].poly \in PolysFrom(m, m.polys)
        /\ verts = "array" <=> data # << >>

\* an array with the triangles of one Poly and without those of another,
\* whose winding the fill rule rejects
C4_Witness ==
    /\ pc = "done" /\ in.entry = "PathToVertices" /\ verts = "array"
    /\ \E poly \in PolysFrom(m, m.polys) :
           /\ ~apply_fill_type(in.fillType, m.P[poly].fWinding)
           /\ TrianglesOf(m, poly) # << >>
           /\ WrittenFor(poly) = << >>

\* C5 as stated: with a worst-case point count n <= 0 or n > 65535 both
\* entry points return 0 without tessellating.
C5_RejectedAbove65535 ==
    in.maxPts <= 0 \/ in.maxPts > 65535 =>
        /\ pc \in {"get_contour_count", "done"}
        /\ ret = 0 /\ m = NewState /\ contours = << >>
        /\ calls = << >> /\ data = << >>

\* C5, amended: with a worst-case point count n <= 0 or n > 65536 both
\* entry points return 0 without tessellating, and a path of 65536
\* points and at least one contour goes on to path_to_contours.
C5_RejectedAbove65536 ==
    /\ in.maxPts <= 0 \/ in.maxPts > 65536 =>
           /\ pc \in {"get_contour_count", "done"}
           /\ ret = 0 /\ m = NewState /\ contours = << >>
           /\ calls = << >> /\ data = << >>
    /\ in.maxPts = 65536 /\ in.contourCnt > 0 /\ pc = "done" =>
           m # NewState /\ contours # << >>

\* a call returned for a path without a point
C5_Witness ==
    /\ pc = "done" /\ in.maxPts <= 0
    /\ ret = 0 /\ m = NewState

\* C6: a path whose worst-case point count exceeds 65536 is rejected: the
\* call returns 0, lock is never called and nothing is written.
C6_TooManyVertsRejected ==
    in.maxPts > 65536 =>
        /\ pc = "done" => ret = 0
        /\ LockCalls = {} /\ data = << >> /\ verts = "unassigned"
        /\ pc \notin {"lock", "new", "polys_to_triangles"}

\* a call returned for a path of more than 65536 points
C6_Witness ==
    /\ pc = "done" /\ in.maxPts > 65536 /\ Len(in.path) > 0
    /\ ret = 0 /\ calls = << >>

\* C7 as stated: when PathToTriangles has written its triangles (the
\* lock, if any, gave a region), a Poly of at least 3 vertices has
\* triangles written iff the fill rule of the path accepts its winding,
\* antialiased or not.
C7_WrittenIffPathFillRule ==
    pc = "done" /\ in.entry = "PathToTriangles"
                /\ (\A l \in LockCalls : calls[l].ok) =>
        \A poly \in PolysFrom(m, m.polys) :
            m.P[poly].fCount >= 3 =>
                (WrittenFor(poly) # << >>
                    <=> apply_fill_type(in.fillType, m.P[poly].fWinding))

\* C7, amended: when PathToTriangles has written its triangles, a Poly of
\* at least 3 vertices has triangles written iff its winding is accepted
\* by the fill rule of the path when not antialiased, and by the non-zero
\* rule when antialiased (the Polys are then those of the boundary mesh,
\* which extract_boundaries built under the fill rule of the path).
C7_WrittenIffEmitFillRule ==
    pc = "done" /\ in.entry = "PathToTriangles"
                /\ (\A l \in LockCalls : calls[l].ok) =>
        \A poly \in PolysFrom(m, m.polys) :
            m.P[poly].fCount >= 3 =>
                (WrittenFor(poly) # << >>
                    <=> apply_fill_type(IF in.antialias THEN "kWinding_FillType"
                                        ELSE in.fillType,
                                        m.P[poly].fWinding))

\* an antialiased call that wrote the triangles of a Poly whose winding
\* the fill rule of the path rejects
C7_Witness ==
    /\ pc = "done" /\ in.entry = "PathToTriangles" /\ in.antialias
    /\ \E poly \in PolysFrom(m, m.polys) :
           /\ m.P[poly].fCount >= 3
           /\ ~apply_fill_type(in.fillType, m.P[poly].fWinding)
           /\ WrittenFor(poly) # << >>

\* two edges cross properly: the end points of each lie strictly on
\* opposite sides of the line through the other
ProperlyCross(mm, e, f) ==
    LET a == PointOf(mm, mm.E[e].fTop)
        b == PointOf(mm, mm.E[e].fBottom)
        p == PointOf(mm, mm.E[f].fTop)
        q == PointOf(mm, mm.E[f].fBottom)
    IN  /\ dist(Line(a, b), p) * dist(Line(a, b), q) < 0
        /\ dist(Line(p, q), a) * dist(Line(p, q), b) < 0

\* C8: after simplify has returned (the call is about to extract the
\* boundaries or is in tessellate, which moves no edge), no two edges
\* linked in the mesh cross properly.
C8_NoProperCrossing ==
    pc \in {"extract_boundaries", "tessellate"} =>
        \A e, f \in MeshEdges(m) : ~ProperlyCross(m, e, f)

\* C9: at every step from the building of the mesh on, so after stage 4
\* and after every loop body of simplify with its set_top, set_bottom,
\* split_edge, merges and connects, every edge linked into the edges-above
\* or edges-below list of a vertex has its top strictly before its bottom
\* under the sweep comparator, and its stored line is the line through
\* its top and its bottom.
C9_EdgesTopToBottom ==
    pc \notin {"get_contour_count", "path_to_contours", "contours_to_mesh"} =>
        \A e \in ArenaEdges(m) :
            /\ sweep_lt(c, PointOf(m, m.E[e].fTop), PointOf(m, m.E[e].fBottom))
            /\ m.E[e].fLine = Line(PointOf(m, m.E[e].fTop),
                                   PointOf(m, m.E[e].fBottom))

\* simplify has returned on a mesh in which it split an edge (the arena
\* holds more vertices than the contours have points)
C9_Witness ==
    /\ pc = "tessellate" /\ ~in.antialias
    /\ Len(m.V) > Len(in.path)
    /\ MeshEdges(m) # {}

\* C10: in tessellate, at every vertex of the mesh each edge of the
\* edges-above list has the vertex as its bottom and each edge of the
\* edges-below list has it as its top, and the SkASSERT that the
\* successor of an edge in the edges-above list is right of the top of
\* the edge never fails.
C10_EdgesAboveOrdered ==
    /\ 2070 \notin m.asserts
    /\ pc = "tessellate" =>
           \A u \in VerticesFrom(m, m.mesh.fHead) :
               /\ \A e \in EdgesAbove(m, u) : m.E[e].fBottom = u
               /\ \A e \in EdgesBelow(m, u) : m.E[e].fTop = u

----------------------------------------------------------------------------
(***************************************************************************)
(* The triangles written, and the contours of a path of straight segments. *)
(***************************************************************************)
RECURSIVE SeqSum(_)
SeqSum(s) == IF s = << >> THEN 0 ELSE Head(s) + SeqSum(Tail(s))

\* twice the signed area of the triangle a, b, p
Cross(a, b, p) ==
    (b[1] - a[1]) * (p[2] - a[2]) - (b[2] - a[2]) * (p[1] - a[1])

\* twice the signed area of the polygon through pts
PolygonArea2(pts) ==
    SeqSum([i \in 1..Len(pts) |->
               pts[i][1] * pts[(i % Len(pts)) + 1][2]
               - pts[(i % Len(pts)) + 1][1] * pts[i][2]])

\* the position of a written vertex
PosOf(d) == IF in.entry = "PathToVertices" THEN d.fPos ELSE d.fPosition

TriangleCount == Len(data) \div 3

\* the corners of the k-th triangle written, and twice its signed area
TriangleAt(k) ==
    << PosOf(data[3 * k - 2]), PosOf(data[3 * k - 1]), PosOf(data[3 * k]) >>

TriangleArea2(k) == Cross(TriangleAt(k)[1], TriangleAt(k)[2], TriangleAt(k)[3])

WrittenArea2 == SeqSum([k \in 1..TriangleCount |-> TriangleArea2(k)])

\* the path is one contour of straight segments; its points
IsLinearContour(path) ==
    /\ Len(path) >= 1 /\ path[1].verb = "kMove_Verb"
    /\ \A i \in 2..Len(path) : path[i].verb = "kLine_Verb"

ContourPoints(path) ==
    [i \in 1..Len(path) |-> IF i = 1 THEN path[1].pts[1] ELSE path[i].pts[2]]

\* pts are the corners of a convex polygon, in order round it (a corner
\* may lie on the line through its neighbours)
ConvexPolygon(pts) ==
    /\ Len(pts) >= 3
    /\ \A i, j \in 1..Len(pts) : i # j => pts[i] # pts[j]
    /\ PolygonArea2(pts) # 0
    /\ \E s \in {-1, 1} :
           \A i, k \in 1..Len(pts) :
               s * Cross(pts[i], pts[(i % Len(pts)) + 1], pts[k]) >= 0

\* a call without antialiasing under the non-zero or the even-odd rule
\* that has returned what it wrote (the lock, if any, gave a region)
PlainFillReturned ==
    /\ pc = "done" /\ ~in.antialias
    /\ in.fillType \in {"kWinding_FillType", "kEvenOdd_FillType"}
    /\ in.maxPts = Len(in.path)
    /\ \A l \in LockCalls : calls[l].ok

\* C11 as stated: a convex polygon of n corners yields n - 2 triangles
\* whose signed areas sum to the signed area of the polygon, a triangle
\* yields its own three corners, and the square yields 2 triangles of
\* area 100.
C11_ConvexSignedArea ==
    PlainFillReturned /\ IsLinearContour(in.path)
                      /\ ConvexPolygon(ContourPoints(in.path)) =>
        /\ TriangleCount = Len(in.path) - 2 /\ Len(data) = 3 * TriangleCount
        /\ WrittenArea2 = PolygonArea2(ContourPoints(in.path))
        /\ Len(in.path) = 3 =>
               {PosOf(data[i]) : i \in 1..Len(data)}
                   = {ContourPoints(in.path)[i] : i \in 1..3}
        /\ ContourPoints(in.path) = Square =>
               TriangleCount = 2 /\ WrittenArea2 = 2 * 100

\* C11, amended: a convex polygon of n corners yields n - 2 triangles,
\* each written in the same sense (its signed area is not negative)
\* whichever way the contour runs, so that their signed areas sum to the
\* absolute value of the signed area of the polygon; a triangle yields its
\* own three corners, and the square yields 2 triangles of area 100.
C11_ConvexArea ==
    PlainFillReturned /\ IsLinearContour(in.path)
                      /\ ConvexPolygon(ContourPoints(in.path)) =>
        /\ TriangleCount = Len(in.path) - 2 /\ Len(data) = 3 * TriangleCount
        /\ \A k \in 1..TriangleCount : TriangleArea2(k) >= 0
        /\ WrittenArea2 = Abs(PolygonArea2(ContourPoints(in.path)))
        /\ Len(in.path) = 3 =>
               {PosOf(data[i]) : i \in 1..Len(data)}
                   = {ContourPoints(in.path)[i] : i \in 1..3}
        /\ ContourPoints(in.path) = Square =>
               TriangleCount = 2 /\ WrittenArea2 = 2 * 100

\* the triangles of a convex polygon of 5 corners whose signed area is
\* negative
C11_Witness ==
    /\ PlainFillReturned /\ IsLinearContour(in.path)
    /\ ConvexPolygon(ContourPoints(in.path))
    /\ Len(in.path) = 5 /\ TriangleCount = 3
    /\ PolygonArea2(ContourPoints(in.path)) < 0

\* the segments a-b and p-q cross properly
SegmentsCross(a, b, p, q) ==
    /\ Cross(a, b, p) * Cross(a, b, q) < 0
    /\ Cross(p, q, a) * Cross(p, q, b) < 0

\* pts is a figure-8: a contour of four points, two opposite sides of
\* which cross properly
FigureEightContour(pts) ==
    /\ Len(pts) = 4
    /\ \/ SegmentsCross(pts[1], pts[2], pts[3], pts[4])
       \/ SegmentsCross(pts[2], pts[3], pts[4], pts[1])

\* the whole points at which the two crossing sides of a figure-8 cross:
\* none when the crossing point has to be rounded
WholeCrossings(pts) ==
    LET xs == { pts[i][1] : i \in 1..4 }
        ys == { pts[i][2] : i \in 1..4 }
        lo(S) == CHOOSE x \in S : \A y \in S : x <= y
        hi(S) == CHOOSE x \in S : \A y \in S : x >= y
    IN  { X \in (lo(xs)..hi(xs)) \X (lo(ys)..hi(ys)) :
            IF SegmentsCross(pts[1], pts[2], pts[3], pts[4])
            THEN Cross(pts[1], pts[2], X) = 0 /\ Cross(pts[3], pts[4], X) = 0
            ELSE Cross(pts[2], pts[3], X) = 0 /\ Cross(pts[4], pts[1], X) = 0 }

\* the windings of the Polys the triangles were written for
WindingAt(k) == m.P[data[3 * k].poly].fWinding

\* what C12 says of the figure-8 with crossing point X: simplify has put
\* a vertex of the mesh there, the call wrote two triangles, each with a
\* corner at X, for Polys whose windings have opposite signs; so under
\* the even-odd rule no triangle covers X or a region of even winding
TwoLobes(X) ==
    /\ \E u \in VerticesFrom(m, m.mesh.fHead) : PointOf(m, u) = X
    /\ TriangleCount = 2 /\ Len(data) = 6
    /\ \A k \in 1..TriangleCount :
           /\ X \in { TriangleAt(k)[i] : i \in 1..3 }
           /\ TriangleArea2(k) > 0
           /\ WindingAt(k) % 2 = 1
    /\ WindingAt(1) * WindingAt(2) < 0

\* C12 as stated: of every figure-8 contour, under the non-zero and
\* under the even-odd rule, the two lobes are written as two triangles of
\* opposite winding that share a vertex at the crossing point.
C12_FigureEight ==
    PlainFillReturned /\ IsLinearContour(in.path)
                      /\ FigureEightContour(ContourPoints(in.path)) =>
        \E X \in (0..10) \X (0..10) : TwoLobes(X)

\* C12, amended: so it is of a figure-8 contour whose crossing point is a
\* point of the float grid (here a whole point, as (5, 5)); the crossing
\* point of any other is rounded to the grid, where a lobe can collapse.
C12_FigureEightWholeCrossing ==
    PlainFillReturned /\ IsLinearContour(in.path)
                      /\ FigureEightContour(ContourPoints(in.path)) =>
        \A X \in WholeCrossings(ContourPoints(in.path)) : TwoLobes(X)

\* the figure-8 that crosses at (5, 5), tessellated under the even-odd
\* rule
C12_Witness ==
    /\ PlainFillReturned /\ in.fillType = "kEvenOdd_FillType"
    /\ in.path = LinearPath(<< FigureEight >>)
    /\ WholeCrossings(ContourPoints(in.path)) = { <<5, 5>> }
    /\ TwoLobes(<<5, 5>>)

\* the triangle t and the open axis-parallel box lo..hi share a point:
\* no side of either separates them
Overlaps(t, lo, hi) ==
    LET corners == { <<x, y>> : x \in {lo[1], hi[1]}, y \in {lo[2], hi[2]} }
        apart(a, b, third) ==
            \A q \in corners : Cross(a, b, q) * Cross(a, b, third) <= 0
    IN  /\ \E i \in 1..3 : t[i][1] > lo[1]
        /\ \E i \in 1..3 : t[i][1] < hi[1]
        /\ \E i \in 1..3 : t[i][2] > lo[2]
        /\ \E i \in 1..3 : t[i][2] < hi[2]
        /\ ~apart(t[1], t[2], t[3])
        /\ ~apart(t[2], t[3], t[1])
        /\ ~apart(t[3], t[1], t[2])

\* the sum of the areas of the triangles written, doubled
WrittenAbsArea2 ==
    SeqSum([k \in 1..TriangleCount |-> Abs(TriangleArea2(k))])

SquareWithHole == LinearPath(<< Square, Reversed(InnerSquare) >>)

\* C13: the square (0,0)-(10,0)-(10,10)-(0,10) with the reverse-wound
\* inner square (2,2)-(8,2)-(8,8)-(2,8), non-zero fill, no antialiasing:
\* exactly 8 triangles are written, their areas sum to 64, all lie in the
\* outer square and none overlaps the inside of the inner square.
C13_SquareWithHole ==
    PlainFillReturned /\ in.path = SquareWithHole
                      /\ in.fillType = "kWinding_FillType" =>
        /\ TriangleCount = 8 /\ Len(data) = 24
        /\ WrittenAbsArea2 = 2 * 64
        /\ \A k \in 1..TriangleCount :
               /\ TriangleArea2(k) > 0
               /\ ~Overlaps(TriangleAt(k), <<2, 2>>, <<8, 8>>)
               /\ \A i \in 1..3 : /\ TriangleAt(k)[i][1] \in 0..10
                                  /\ TriangleAt(k)[i][2] \in 0..10

\* the square with the hole has been tessellated under the non-zero
\* rule, and a triangle touches the inner square from outside
C13_Witness ==
    /\ PlainFillReturned /\ in.path = SquareWithHole
    /\ in.fillType = "kWinding_FillType"
    /\ TriangleCount = 8
    /\ \E k \in 1..TriangleCount :
           /\ <<2, 2>> \in { TriangleAt(k)[i] : i \in 1..3 }
           /\ Overlaps(TriangleAt(k), <<0, 0>>, <<10, 10>>)

\* the corners of the triangles written, one set for each triangle
WrittenCorners ==
    { { TriangleAt(k)[i] : i \in 1..3 } : k \in 1..TriangleCount }

\* the two triangles the plain square is cut into
SquareTriangles ==
    { { <<0, 0>>, <<10, 0>>, <<0, 10>> }, { <<10, 10>>, <<0, 10>>, <<10, 0>> } }

\* the contour (0,0)-(5,0)-(10,0)-(10,10)-(0,10) has been tessellated under
\* the non-zero rule, without antialiasing
CollinearSquareReturned ==
    /\ PlainFillReturned /\ in.fillType = "kWinding_FillType"
    /\ in.path = LinearPath(<< CollinearSquare >>)

\* C14 as stated: the contour (0,0)-(5,0)-(10,0)-(10,10)-(0,10) yields
\* the 2 triangles of the plain square, and (5,0) is a corner of no
\* triangle written.
C14_MidpointCollapsed ==
    CollinearSquareReturned =>
        /\ TriangleCount = 2
        /\ WrittenCorners = SquareTriangles
        /\ \A k \in 1..TriangleCount : \A i \in 1..3 : TriangleAt(k)[i] # <<5, 0>>

\* C14, amended: the contour yields 3 triangles, the 2 of the plain square
\* and the zero-area triangle (0,0),(5,0),(10,0) at the collinear midpoint,
\* which is kept; the area covered is that of the plain square, which
\* itself yields its 2 triangles and no more.
C14_MidpointKept ==
    /\ CollinearSquareReturned =>
           /\ TriangleCount = 3 /\ Len(data) = 9
           /\ WrittenCorners
                  = SquareTriangles \cup { { <<0, 0>>, <<5, 0>>, <<10, 0>> } }
           /\ WrittenAbsArea2 = 2 * 100
           /\ \E k \in 1..TriangleCount :
                  /\ TriangleArea2(k) = 0
                  /\ TriangleAt(k)[2] = <<5, 0>>
    /\ PlainFillReturned /\ in.path = LinearPath(<< Square >>) =>
           /\ TriangleCount = 2
           /\ WrittenCorners = SquareTriangles

\* the contour with the collinear midpoint has been tessellated and the
\* midpoint is a corner of a triangle written
C14_Witness ==
    /\ CollinearSquareReturned
    /\ \E k \in 1..TriangleCount : <<5, 0>> \in { TriangleAt(k)[i] : i \in 1..3 }

\* the paths without area: the empty path, a single point, a single segment
ZeroAreaPaths ==
    { << >>, LinearPath(<< SinglePoint >>), LinearPath(<< SingleSegment >>) }

\* a path without area has its own worst-case point count
ZeroAreaInput ==
    in.path \in ZeroAreaPaths /\ in.maxPts = Len(in.path)

\* nothing was written: no triangle, no Poly, no call on the allocator
NothingWritten ==
    ret = 0 /\ data = << >> /\ m.P = << >> /\ m.polys = 0 /\ calls = << >>

\* C15 as stated: every call on a path without area returns 0 triangles,
\* with no Poly made and no call on the allocator.
C15_ZeroAreaNothingWritten ==
    pc = "done" /\ ZeroAreaInput => NothingWritten

\* C15, amended: so it is of the empty path under every fill rule, and of
\* the single point and the single segment under the non-zero and the
\* even-odd rule, antialiased or not (an inverse rule adds the clip
\* rectangle as a contour, which is filled).  sanitize_contours drops the
\* contour of one point and leaves the mesh empty; the two edges of the
\* single segment, there and back, are merged into one edge of winding 0
\* as they are connected.
C15_ZeroAreaNothingFilled ==
    /\ pc = "done" /\ ZeroAreaInput
          /\ (in.path = << >> \/ ~SkPath_IsInverseFillType(in.fillType))
          => NothingWritten
    /\ pc = "contours_to_mesh" /\ ~SkPath_IsInverseFillType(in.fillType)
          /\ in.path = LinearPath(<< SinglePoint >>) =>
          /\ Len(contours) = 1 /\ contours[1] # 0
          /\ sanitize_contours(m, contours, 1, in.antialias).contours = << 0 >>
    /\ pc = "sort_and_simplify" /\ ~SkPath_IsInverseFillType(in.fillType)
          /\ in.path = LinearPath(<< SinglePoint >>) =>
          /\ m.mesh.fHead = 0 /\ m.E = << >>
    /\ pc = "sort_and_simplify" /\ ~SkPath_IsInverseFillType(in.fillType)
          /\ in.path = LinearPath(<< SingleSegment >>) =>
          /\ Len(m.E) = 2 /\ Cardinality(MeshEdges(m)) = 1
          /\ \A e \in MeshEdges(m) :
                 /\ m.E[e].fWinding = 0
                 /\ PointOf(m, m.E[e].fTop) # PointOf(m, m.E[e].fBottom)

\* the single segment has been through the whole pipeline, down to
\* count_points, and the call has returned with nothing written
C15_Witness ==
    /\ pc = "done" /\ in.path = LinearPath(<< SingleSegment >>)
    /\ in.fillType = "kWinding_FillType" /\ in.maxPts = 2
    /\ Len(m.E) = 2 /\ Cardinality(MeshEdges(m)) = 1
    /\ NothingWritten

RECURSIVE ListFrom(_, _)
\* the vertices of a list, from u on, in the order of their fNext
ListFrom(V, u) == IF u = 0 THEN << >> ELSE << u >> \o ListFrom(V, V[u].fNext)

\* the place of the vertex u in the sequence s
PlaceIn(s, u) == CHOOSE i \in 1..Len(s) : s[i] = u

\* the mesh is about to be sorted
BeforeSort == pc \in {"sort_and_simplify", "sort_and_simplify_aa"}

\* the list handed to merge_sort and the list it leaves
Unsorted == ListFrom(m.V, m.mesh.fHead)

Sorted ==
    LET r == merge_sort(m.V, m.mesh, c) IN ListFrom(r.V, r.list.fHead)

\* the pairs of vertices at one position, the first of which is earlier
\* in the list handed to merge_sort
EqualPairs ==
    { p \in (1..Len(Unsorted)) \X (1..Len(Unsorted)) :
        /\ p[1] < p[2]
        /\ PointOf(m, Unsorted[p[1]]) = PointOf(m, Unsorted[p[2]]) }

\* C16 as stated: merge_sort is stable; two vertices at one position are
\* in the sorted list in the order they had in the input list.
C16_SortStable ==
    BeforeSort =>
        \A p \in EqualPairs :
            PlaceIn(Sorted, Unsorted[p[1]]) < PlaceIn(Sorted, Unsorted[p[2]])

\* C16, amended: merge_sort turns the order of equal vertices round; two
\* vertices at one position are in the sorted list in the opposite of the
\* order they had in the input list (the merge takes the head of the back
\* half unless the head of the front half is strictly earlier).
C16_SortReversesEqual ==
    BeforeSort =>
        \A p \in EqualPairs :
            PlaceIn(Sorted, Unsorted[p[2]]) < PlaceIn(Sorted, Unsorted[p[1]])

\* a list with three vertices at one position is about to be sorted, and
\* the sort puts the last of them first
C16_Witness ==
    /\ BeforeSort
    /\ \E p, q \in EqualPairs :
           /\ p[2] = q[1]
           /\ PlaceIn(Sorted, Unsorted[q[2]]) < PlaceIn(Sorted, Unsorted[p[1]])

\* the points and control points of the path, and the extent of the box
\* around them
PathPoints ==
    UNION { { in.path[i].pts[k] : k \in 1..Len(in.path[i].pts) } :
              i \in 1..Len(in.path) }

Extent(S) ==
    IF S = {} THEN 0
    ELSE (CHOOSE hi \in S : \A x \in S : hi >= x)
         - (CHOOSE lo \in S : \A x \in S : lo <= x)

\* the positions of the vertices made so far
VertexPoints == { m.V[u].fPoint : u \in 1..Len(m.V) }

\* the order C17 describes for the direction dir
Precedes(dir, a, b) ==
    IF dir = "kHorizontal"
    THEN a[1] < b[1] \/ (a[1] = b[1] /\ a[2] > b[2])
    ELSE a[2] < b[2] \/ (a[2] = b[2] /\ a[1] < b[1])

\* the Comparator has been made: the call is past contours_to_polys'
\* first statement (a call that returns at get_contour_count makes none)
ComparatorChosen ==
    /\ pc \notin {"get_contour_count", "path_to_contours", "contours_to_mesh"}
    /\ pc = "done" => m # NewState

\* C17: from the moment the Comparator is made, at every stage, its
\* direction is kHorizontal iff the bounds of the path are wider than
\* high; horizontal is X ascending with ties broken by Y descending,
\* vertical Y ascending with ties broken by X ascending; and on the
\* positions of the vertices it is given to sort, sweep_lt is irreflexive
\* and transitive and puts exactly one of two distinct points before the
\* other.
C17_ComparatorTotalOrder ==
    /\ ComparatorChosen =>
           c = IF Extent({ p[1] : p \in PathPoints })
                   > Extent({ p[2] : p \in PathPoints })
               THEN "kHorizontal" ELSE "kVertical"
    /\ BeforeSort =>
           \A a, b \in VertexPoints :
               /\ sweep_lt(c, a, b) <=> Precedes(c, a, b)
               /\ ~sweep_lt(c, a, a)
               /\ a # b => (sweep_lt(c, a, b) <=> ~sweep_lt(c, b, a))
               /\ a = b => ~sweep_lt(c, a, b) /\ ~sweep_lt(c, b, a)
               /\ \A d \in VertexPoints :
                      sweep_lt(c, a, b) /\ sweep_lt(c, b, d) => sweep_lt(c, a, d)

\* a horizontal sweep is at work on a mesh in which two vertices share
\* their X, and the one with the greater Y is the earlier
C17_Witness ==
    /\ pc = "tessellate" /\ c = "kHorizontal"
    /\ \E a, b \in VertexPoints :
           a[1] = b[1] /\ a[2] > b[2] /\ sweep_lt(c, a, b)
    /\ \E u \in 1..Len(m.V) :
           /\ m.V[u].fNext # 0
           /\ m.V[u].fPoint[1] = m.V[m.V[u].fNext].fPoint[1]
           /\ m.V[u].fPoint[2] > m.V[m.V[u].fNext].fPoint[2]

\* the elements of a sequence
Range(s) == { s[i] : i \in 1..Len(s) }

\* C19: merge_sort returns the vertices it was given, each once, with
\* their positions as they were, linked both ways from fHead on, and no
\* vertex of the list comes before its predecessor under the Comparator.
C19_SortedPermutation ==
    BeforeSort =>
        LET r == merge_sort(m.V, m.mesh, c)
        IN  /\ Range(Sorted) = Range(Unsorted)
            /\ Len(Sorted) = Len(Unsorted)
            /\ Cardinality(Range(Sorted)) = Len(Sorted)
            /\ \A u \in Range(Sorted) : r.V[u].fPoint = m.V[u].fPoint
            /\ \A i \in 1..Len(Sorted) :
                   r.V[Sorted[i]].fPrev = IF i = 1 THEN 0 ELSE Sorted[i - 1]
            /\ \A u \in Range(Sorted) :
                   r.V[u].fNext # 0 =>
                       ~sweep_lt(c, r.V[r.V[u].fNext].fPoint, r.V[u].fPoint)

\* a list of five vertices or more, out of order and with two vertices at
\* one position, is about to be sorted, and the sort moves its head
C19_Witness ==
    /\ BeforeSort /\ Len(Unsorted) >= 5 /\ EqualPairs # {}
    /\ \E i \in 1..(Len(Unsorted) - 1) :
           sweep_lt(c, PointOf(m, Unsorted[i + 1]), PointOf(m, Unsorted[i]))
    /\ Sorted # Unsorted /\ Sorted[1] # Unsorted[1]

\* the state merge_sort leaves
SortedState ==
    LET r == merge_sort(m.V, m.mesh, c) IN [m EXCEPT !.V = r.V, !.mesh = r.list]

\* the vertices of the mesh of the state mm, in the order of the list
MeshList(mm) == ListFrom(mm.V, mm.mesh.fHead)

\* the vertices of the sorted state s at the position of u
GroupOf(s, u) ==
    { w \in Range(MeshList(s)) : s.V[w].fPoint = s.V[u].fPoint }

\* each vertex of the list of a is strictly before the next
StrictlyIncreasing(a, list) ==
    \A i \in 1..(Len(list) - 1) :
        sweep_lt(c, a.V[list[i]].fPoint, a.V[list[i + 1]].fPoint)

\* of the vertices of s at one position, one is left in the list of a,
\* where it was, with the greatest of their alphas
OneSurvivor(s, a, left) ==
    \A u \in Range(MeshList(s)) :
        /\ Cardinality(GroupOf(s, u) \cap left) = 1
        /\ \A w \in GroupOf(s, u) \cap left :
               /\ a.V[w].fPoint = s.V[u].fPoint
               /\ a.V[w].fAlpha >= s.V[u].fAlpha
               /\ \E x \in GroupOf(s, u) : a.V[w].fAlpha = s.V[x].fAlpha

\* the vertices taken out have no edges, and those of their edges that
\* are still edges of a vertex end at the vertex left at their position
EdgesRetargeted(s, a, left) ==
    \A u \in Range(MeshList(s)) \ left :
        /\ EdgesAbove(a, u) = {} /\ EdgesBelow(a, u) = {}
        /\ \A e \in EdgesAbove(s, u) \cap ArenaEdges(a) :
               a.E[e].fBottom \in GroupOf(s, u) \cap left
        /\ \A e \in EdgesBelow(s, u) \cap ArenaEdges(a) :
               a.E[e].fTop \in GroupOf(s, u) \cap left

\* the vertices taken out have no edges, and those of their edges that
\* are still edges of a vertex end at a vertex of the list
EdgesKeptInList(s, a, left) ==
    \A u \in Range(MeshList(s)) \ left :
        /\ EdgesAbove(a, u) = {} /\ EdgesBelow(a, u) = {}
        /\ \A e \in EdgesAbove(s, u) \cap ArenaEdges(a) :
               a.E[e].fBottom \in left /\ e \in EdgesAbove(a, a.E[e].fBottom)
        /\ \A e \in EdgesBelow(s, u) \cap ArenaEdges(a) :
               a.E[e].fTop \in left /\ e \in EdgesBelow(a, a.E[e].fTop)

\* no edge of the mesh of a has an end outside the list
NoEdgeToRemoved(a, left) ==
    \A e \in MeshEdges(a) : a.E[e].fTop \in left /\ a.E[e].fBottom \in left

\* C20 as stated: after merge_coincident_vertices on the sorted list, each
\* vertex of the list is strictly before the next under the Comparator;
\* of the vertices at one position one is left, with the greatest of
\* their alphas; the others are out of the list; and every edge that
\* ended at one of them (and is an edge still) ends at the one left at
\* that position, so that no edge of the mesh has an end outside the
\* list.
C20_EdgesEndAtSurvivor ==
    BeforeSort /\ m.mesh.fHead # 0 =>
        \A s \in { SortedState } :
        \A a \in { merge_coincident_vertices(s, c) } :
        \A left \in { Range(MeshList(a)) } :
            /\ StrictlyIncreasing(a, MeshList(a))
            /\ left \subseteq Range(MeshList(s))
            /\ OneSurvivor(s, a, left)
            /\ EdgesRetargeted(s, a, left)
            /\ NoEdgeToRemoved(a, left)

\* C20, amended: the list is strictly increasing, one vertex is left at
\* each position with the greatest alpha, the others are out of the list
\* and have no edges; every edge that ended at one of them was handed to
\* set_top or set_bottom with the vertex left, and is afterwards an edge
\* of a vertex of the list (of the one left, or, where
\* merge_collinear_edges cut it back to the end of a collinear edge, of
\* another) or is erased, an edge of no vertex; so that no edge of the
\* mesh has an end outside the list.
C20_EdgesEndInList ==
    BeforeSort /\ m.mesh.fHead # 0 =>
        \A s \in { SortedState } :
        \A a \in { merge_coincident_vertices(s, c) } :
        \A left \in { Range(MeshList(a)) } :
            /\ StrictlyIncreasing(a, MeshList(a))
            /\ left \subseteq Range(MeshList(s))
            /\ OneSurvivor(s, a, left)
            /\ EdgesKeptInList(s, a, left)
            /\ NoEdgeToRemoved(a, left)

\* vertices of different alphas at one position are merged into one, an
\* edge of one taken out ends at the one left and another ends at a
\* vertex elsewhere
C20_Witness ==
    /\ BeforeSort /\ m.mesh.fHead # 0
    /\ \E s \in { SortedState } :
       \E a \in { merge_coincident_vertices(s, c) } :
       \E u, w \in Range(MeshList(s)) \ Range(MeshList(a)) :
           /\ \E x \in GroupOf(s, u) : s.V[x].fAlpha # s.V[u].fAlpha
           /\ \E e \in (EdgesAbove(s, u) \cup EdgesBelow(s, u)) \cap MeshEdges(a) :
                  {a.E[e].fTop, a.E[e].fBottom} \cap GroupOf(s, u) # {}
           /\ \E e \in (EdgesAbove(s, w) \cup EdgesBelow(s, w)) \cap MeshEdges(a) :
                  {a.E[e].fTop, a.E[e].fBottom} \cap GroupOf(s, w) = {}

RECURSIVE AELFrom(_, _)
\* the edges of the active edge list, from e rightwards
AELFrom(mm, e) == IF e = 0 THEN {} ELSE {e} \cup AELFrom(mm, mm.E[e].fRight)

AEL(mm) == AELFrom(mm, mm.activeEdges.fHead)

\* simplify is at work: the sweep is between two iterations of its
\* do-while or between two vertices
InSimplify == pc \in {"simplify", "simplify_aa"}

\* every edge of the active list has a processed top and an unprocessed
\* bottom
ActiveBetweenEnds(mm) ==
    \A e \in AEL(mm) : /\ mm.V[mm.E[e].fTop].fProcessed
                        /\ ~mm.V[mm.E[e].fBottom].fProcessed

\* the state in which simplify returns, when the step from this state is
\* its last: the last vertex has no edge, or its do-while ends and it is
\* the last of the list
SimplifyReturns ==
    IF ~restartChecks /\ m.V[v].fFirstEdgeAbove = 0 /\ m.V[v].fFirstEdgeBelow = 0
    THEN IF m.V[v].fNext = 0 THEN {m} ELSE {}
    ELSE { simplify_finish(r.m, r.v, r.left, r.right) :
             r \in { x \in { simplify_checks(m, v, c) } :
                       ~x.restartChecks /\ x.m.V[x.v].fNext = 0 } }

\* C21: throughout simplify, after every iteration of the do-while (with
\* its split_edge, set_top and set_bottom) and at the end of every vertex
\* step, every edge of the active list has a processed top and an
\* unprocessed bottom; and when simplify returns the list is empty.
C21_ActiveBetweenEnds ==
    InSimplify =>
        /\ ActiveBetweenEnds(m)
        /\ \A last \in SimplifyReturns :
               ActiveBetweenEnds(last) /\ last.activeEdges = EmptyList

\* simplify has split an edge at an intersection, the active list holds
\* two edges or more, and the sweep goes on
C21_Witness ==
    /\ InSimplify /\ restartChecks
    /\ Cardinality(AEL(m)) >= 2
    /\ \E e \in AEL(m) : m.E[e].fBottom = Len(m.V)

\* a step of simplify: one iteration of a do-while, or the body for a vertex
SimplifyStep == SimplifyRestart \/ SimplifyVertex

\* the step cuts edge e back: an end of e moves inwards in sweep order and
\* the other end does not move outwards
EdgeShortened(e) ==
    \A t \in { m.V[m.E[e].fTop].fPoint } :
    \A b \in { m.V[m.E[e].fBottom].fPoint } :
    \A t2 \in { m'.V[m'.E[e].fTop].fPoint } :
    \A b2 \in { m'.V[m'.E[e].fBottom].fPoint } :
        \/ sweep_lt(c, t, t2) /\ ~sweep_lt(c, b, b2)
        \/ sweep_lt(c, b2, b) /\ ~sweep_lt(c, t2, t)

\* C22: simplify terminates: no behaviour takes steps of simplify for ever;
\* from some point on every step that changes the state is a step of
\* another stage, so each do-while is left after finitely many iterations
\* and the sweep reaches the end of the list (the recursion of split_edge,
\* cleanup_active_edges and merge_collinear_edges is within a step, which
\* has a value only if the recursion ends). Each restart moves the current
\* vertex strictly earlier in sweep order or strictly shortens an edge.
C22_SimplifyTerminates ==
    /\ <>[][~SimplifyStep]_vars
    /\ [][SimplifyRestart =>
            \/ sweep_lt(c, m'.V[v'].fPoint, m.V[v].fPoint)
            \/ \E e \in 1..Len(m.E) : EdgeShortened(e)]_vars

\* simplify has returned after it made a vertex at an intersection, and
\* so ran a do-while again
C22_Witness ==
    /\ pc = "tessellate" /\ ~in.antialias
    /\ ~SkPath_IsInverseFillType(in.fillType)
    /\ IsLinearContour(in.path)
    /\ Len(m.V) > Len(in.path)

\* the Polys have been made and none has been emitted yet
PolysMade == pc \in {"count_points", "lock", "polys_to_triangles", "new"}

\* the MonotonePolys that hold an edge
Chains == { mp \in 1..Len(m.MP) : m.MP[mp].fFirstEdge # 0 }

RECURSIVE ChainFrom(_, _)
\* the edges of a MonotonePoly from e on, through the links of its side
ChainFrom(e, side) ==
    IF e = 0 THEN << >>
    ELSE << e >> \o ChainFrom(IF side = "kRight_Side" THEN m.E[e].fRightPolyNext
                                                       ELSE m.E[e].fLeftPolyNext, side)

\* the ring the first loop of MonotonePoly::emit makes for mp
RingOf(mp) ==
    emit_collect(VertexList_append(m.V, EmptyList, m.E[m.MP[mp].fFirstEdge].fTop),
                 m.E, m.MP[mp].fFirstEdge, m.MP[mp].fSide)

\* what the second loop of MonotonePoly::emit leaves of the ring l
FanOf(l) ==
    emit_fan([m EXCEPT !.V = l.V], l.list.fHead, l.list.fTail,
             l.V[l.list.fHead].fNext, "null", << >>, 0)

\* twice the signed area emit tests, of the i-th triangle written in data
TurnAt(d, i) ==
    Cross(d[3 * i - 2].fPosition, d[3 * i - 1].fPosition, d[3 * i].fPosition)

\* C23: MonotonePoly::emit comes to its end for every chain (it returns, and
\* its assertion on the ring holds); for a chain of k edges the ring has
\* k + 1 vertices and at most k - 1 triangles are written; every triangle
\* written has a signed area >= 0 and takes its middle vertex off the ring,
\* and no vertex leaves the ring otherwise; the first and the last vertex
\* of the ring stay.
C23_EmitFan ==
    PolysMade =>
        \A mp \in Chains :
        \A k \in { Len(ChainFrom(m.MP[mp].fFirstEdge, m.MP[mp].fSide)) } :
        \A l \in { RingOf(mp) } :
        \A r \in { FanOf(l) } :
        \A before \in { ListFrom(l.V, l.list.fHead) } :
        \A after \in { ListFrom(r.m.V, l.list.fHead) } :
            /\ r.m.asserts = m.asserts
            /\ Len(before) = k + 1
            /\ Len(r.data) <= 3 * (k - 1)
            /\ \A i \in 1..(Len(r.data) \div 3) : TurnAt(r.data, i) >= 0
            /\ Len(before) - Len(after) = Len(r.data) \div 3
            /\ Range(after) \subseteq Range(before)
            /\ \A i \in 1..(Len(r.data) \div 3) :
                   r.data[3 * i - 1].fPosition
                       \notin { m.V[u].fPoint : u \in Range(after) }
            /\ after[1] = before[1]
            /\ after[Len(after)] = before[Len(before)]

\* a chain of which emit cuts a corner off after it has walked past a
\* corner that turns the other way
C23_Witness ==
    /\ PolysMade
    /\ \E mp \in Chains :
       \E l \in { RingOf(mp) } :
       \E r \in { FanOf(l) } :
       \E before \in { ListFrom(l.V, l.list.fHead) } :
           /\ Len(before) >= 4
           /\ Len(r.data) = 3 * (Len(before) - 2)
           /\ r.data[2].fPosition # m.V[before[2]].fPoint

\* the path is about to be linearized
BeforeLinearize == pc = "path_to_contours"

\* the halves a bisection passes on, as de Casteljau's construction at 1/2
\* gives them: << the first half, the second half >> of the control points
Halves(pts) ==
    IF Len(pts) = 3
    THEN << << pts[1], Ave(pts[1], pts[2]),
               Ave(Ave(pts[1], pts[2]), Ave(pts[2], pts[3])) >>,
            << Ave(Ave(pts[1], pts[2]), Ave(pts[2], pts[3])),
               Ave(pts[2], pts[3]), pts[3] >> >>
    ELSE << << pts[1], Ave(pts[1], pts[2]),
               Ave(Ave(pts[1], pts[2]), Ave(pts[2], pts[3])),
               Ave(Ave(Ave(pts[1], pts[2]), Ave(pts[2], pts[3])),
                   Ave(Ave(pts[2], pts[3]), Ave(pts[3], pts[4]))) >>,
            << Ave(Ave(Ave(pts[1], pts[2]), Ave(pts[2], pts[3])),
                   Ave(Ave(pts[2], pts[3]), Ave(pts[3], pts[4]))),
               Ave(Ave(pts[2], pts[3]), Ave(pts[3], pts[4])),
               Ave(pts[3], pts[4]), pts[4] >> >>

\* what one call of generate_quadratic_points or generate_cubic_points
\* appends to an empty contour
Linearized(call) ==
    IF Len(call.pts) = 3
    THEN generate_quadratic_points(NewState, call.pts[1], call.pts[2], call.pts[3],
                                   in.tolerance * in.tolerance, 0, 0,
                                   call.pointsLeft).m.V
    ELSE generate_cubic_points(NewState, call.pts[1], call.pts[2], call.pts[3],
                               call.pts[4], in.tolerance * in.tolerance, 0, 0,
                               call.pointsLeft).m.V

RECURSIVE CurveCalls(_)
\* a call and the calls it makes, a call that appends more than its end
\* point having bisected
CurveCalls(call) ==
    { call } \cup
    IF Len(Linearized(call)) = 1 THEN {}
    ELSE UNION { CurveCalls([pts |-> Halves(call.pts)[h],
                             pointsLeft |-> call.pointsLeft \div 2]) : h \in 1..2 }

\* the calls made for the curves of the path
PathCurveCalls ==
    UNION { CurveCalls([pts |-> in.path[i].pts, pointsLeft |-> in.path[i].pointsLeft]) :
              i \in { j \in 1..Len(in.path) :
                        in.path[j].verb \in {"kQuad_Verb", "kCubic_Verb"} } }

\* the squared distances of the control points of a call from its chord
ControlDistances(call) ==
    { distanceToLineSegmentBetweenSqd(call.pts[i], call.pts[1], call.pts[Len(call.pts)]) :
        i \in 2..(Len(call.pts) - 1) }

\* the call appends its end point and nothing else
AppendsEndOnly(call) ==
    /\ Len(Linearized(call)) = 1
    /\ Linearized(call)[1].fPoint = call.pts[Len(call.pts)]

\* the budget bounds what a call appends, and the end point comes last
WithinBudget(call) ==
    /\ Len(Linearized(call)) >= 1
    /\ Len(Linearized(call)) <= IF call.pointsLeft > 1 THEN call.pointsLeft ELSE 1
    /\ Linearized(call)[Len(Linearized(call))].fPoint = call.pts[Len(call.pts)]

\* C24 as stated: a bisection stops, appending only the end point, exactly
\* when every control point's squared distance from the chord is <= the
\* squared tolerance or the budget is below 2, and a call appends at most
\* max(1, pointsLeft) vertices.
C24_StopsAtTolerance ==
    BeforeLinearize =>
        \A call \in PathCurveCalls :
            /\ AppendsEndOnly(call) <=>
                   \/ call.pointsLeft < 2
                   \/ \A d \in ControlDistances(call) :
                          d.num <= in.tolerance * in.tolerance * d.den
            /\ WithinBudget(call)

\* C24, amended: the bisection stops exactly when every control point's
\* squared distance from the chord is strictly below the squared tolerance
\* or the budget is below 2; every call returns, having appended at most
\* max(1, pointsLeft) vertices, its end point last.
C24_StopsBelowTolerance ==
    BeforeLinearize =>
        \A call \in PathCurveCalls :
            /\ AppendsEndOnly(call) <=>
                   \/ call.pointsLeft < 2
                   \/ \A d \in ControlDistances(call) :
                          d.num < in.tolerance * in.tolerance * d.den
            /\ WithinBudget(call)

\* a curve whose control points lie at the tolerance from the chord, with
\* a budget of 2 or more, is bisected
C24_Witness ==
    /\ BeforeLinearize
    /\ \E call \in PathCurveCalls :
           /\ call.pointsLeft >= 2
           /\ \A d \in ControlDistances(call) :
                  d.num = in.tolerance * in.tolerance * d.den
           /\ Len(Linearized(call)) >= 2

\* boundary_to_aa_mesh has built the antialiased mesh, which is not sorted
\* yet: in its list every inner vertex is followed by its outer vertex, in
\* the order of the rings
AAMeshBuilt == pc = "sort_and_simplify_aa"

\* the edges linked below the vertices of the list s
AAEdges(s) == UNION { EdgesBelow(m, s[i]) : i \in 1..Len(s) }

\* no two vertices at the places of parity par of the list s share a point
Apart(s, par) ==
    \A i \in 1..Len(s) : \A j \in 1..Len(s) :
        (i < j /\ i % 2 = par /\ j % 2 = par) => m.V[s[i]].fPoint # m.V[s[j]].fPoint

\* the outer edges join outer vertices, the inner edges inner vertices, and
\* a connector an outer vertex and its inner vertex; there are as many
\* outer vertices as inner ones
QuadMesh(s) ==
    /\ Len(s) % 2 = 0
    /\ \A e \in AAEdges(s) :
       \A a \in { PlaceIn(s, m.E[e].fTop) } :
       \A b \in { PlaceIn(s, m.E[e].fBottom) } :
           CASE m.E[e].fType = "kOuter" -> a % 2 = 0 /\ b % 2 = 0
             [] m.E[e].fType = "kInner" -> a % 2 = 1 /\ b % 2 = 1
             [] OTHER -> (a % 2 = 0 /\ b = a - 1) \/ (b % 2 = 0 /\ a = b - 1)

\* the alpha the vertices were made with, which fix_inversions changes only
\* of two vertices it moves to one point: 255 inside and 0 outside
MadeAlpha(s) ==
    /\ Apart(s, 1) => \A i \in 1..Len(s) : i % 2 = 1 => m.V[s[i]].fAlpha = 255
    /\ Apart(s, 0) => \A i \in 1..Len(s) : i % 2 = 0 => m.V[s[i]].fAlpha = 0

Pairs(s) == 1..(Len(s) \div 2)

InnerAt(s, k) == s[2 * k - 1]

OuterAt(s, k) == s[2 * k]

\* the ways to cut the pairs of the list s into rings: the sets of the
\* pairs that start a ring
RingStarts(s) == { S \in SUBSET Pairs(s) : 1 \in S }

\* the pair before the pair k on its ring, for the ring starts S: the
\* pair connect joins with k
RingPrev(s, S, k) ==
    IF k \notin S THEN k - 1
    ELSE IF \E j \in S : j > k
         THEN (CHOOSE j \in S : j > k /\ \A i \in S : i > k => j <= i) - 1
         ELSE Len(s) \div 2

\* the edges of the type between the vertices a and b
Joining(s, a, b, type) ==
    { e \in AAEdges(s) : /\ m.E[e].fType = type
                         /\ {m.E[e].fTop, m.E[e].fBottom} = {a, b} }

\* merge_collinear_edges has merged no edge of the mesh: the mesh holds
\* one edge for each call of connect, between the vertices of the call,
\* and no other edge
Unmerged(s, S) ==
    /\ Len(s) % 2 = 0
    /\ Cardinality(AAEdges(s)) = 3 * (Len(s) \div 2)
    /\ AAEdges(s) =
           UNION { Joining(s, OuterAt(s, RingPrev(s, S, k)), OuterAt(s, k), "kOuter")
                     \cup Joining(s, InnerAt(s, RingPrev(s, S, k)), InnerAt(s, k), "kInner")
                     \cup Joining(s, OuterAt(s, k), InnerAt(s, k), "kConnector") :
                   k \in Pairs(s) }
    /\ \A k \in Pairs(s) :
       \A j \in { RingPrev(s, S, k) } :
           /\ Cardinality(Joining(s, OuterAt(s, j), OuterAt(s, k), "kOuter")) = 1
           /\ Cardinality(Joining(s, InnerAt(s, j), InnerAt(s, k), "kInner")) = 1
           /\ Cardinality(Joining(s, OuterAt(s, k), InnerAt(s, k), "kConnector")) = 1

MakesVertex == InSimplify /\ InSimplify' /\ Len(m'.V) > Len(m.V)

\* the point p lies on the grid of quarter pixels
OnQuarterGrid(p) == p[1] % (PixelUnits \div 4) = 0 /\ p[2] % (PixelUnits \div 4) = 0

\* the coordinate x is the float nearest to (a * den + sN * d) / den
NearestTo(x, a, d, sN, den) == 2 * Abs(x * den - (a * den + sN * d)) <= Abs(den)

\* p is the float point nearest to the point where the lines through the
\* edges e and o of the state mm cross, which lies on both edges
AtCrossing(mm, p, e, o) ==
    \A a \in { mm.V[mm.E[e].fTop].fPoint } :
    \A b \in { mm.V[mm.E[e].fBottom].fPoint } :
    \A a2 \in { mm.V[mm.E[o].fTop].fPoint } :
    \A b2 \in { mm.V[mm.E[o].fBottom].fPoint } :
    \A den \in { (b[1] - a[1]) * (b2[2] - a2[2]) - (b[2] - a[2]) * (b2[1] - a2[1]) } :
    \A sN \in { (a2[1] - a[1]) * (b2[2] - a2[2]) - (a2[2] - a[2]) * (b2[1] - a2[1]) } :
        /\ den # 0
        /\ NearestTo(p[1], a[1], b[1] - a[1], sN, den)
        /\ NearestTo(p[2], a[2], b[2] - a[2], sN, den)

\* the vertex the step makes is at the crossing of two edges, not snapped
MadeAtCrossing ==
    \E e \in 1..Len(m.E) : \E o \in 1..Len(m.E) :
        e # o /\ AtCrossing(m, m'.V[Len(m'.V)].fPoint, e, o)

ViaReturned == via.pc = "done"

\* how many times src.draw has been called on the canvas
Draws == Cardinality({ i \in 1..Len(via.canvas) : via.canvas[i] = "draw" })

\* every draw on the canvas comes straight after a clear
DrawsAfterClear ==
    \A i \in 1..Len(via.canvas) :
        via.canvas[i] = "draw" => (i > 1 /\ via.canvas[i - 1] = "clear")

\* C27: ViaTwice::draw draws the Src twice: when both draws succeed,
\* src.draw is called exactly twice on the canvas, each time after a clear,
\* and the result is checked against the reference; when a draw returns an
\* error that is not empty, that error is returned and no further draw is
\* made.
C27_DrawsTwice ==
    ViaReturned =>
        /\ DrawsAfterClear
        /\ (isEmpty(via.call.drawErr[1]) /\ isEmpty(via.call.drawErr[2])) =>
               /\ Draws = 2
               /\ via.checked
               /\ via.ret = check_against_reference(via.call)
        /\ ~isEmpty(via.call.drawErr[1]) =>
               Draws = 1 /\ via.ret = via.call.drawErr[1]
        /\ (isEmpty(via.call.drawErr[1]) /\ ~isEmpty(via.call.drawErr[2])) =>
               Draws = 2 /\ via.ret = via.call.drawErr[2]

(***************************************************************************)
(* The membership assertions of the active edge list.                      *)
(***************************************************************************)

\* the lines of SkASSERT(edges->contains(edge)) in remove_edge and of
\* SkASSERT(!edges->contains(edge)) in insert_edge
MembershipAsserts == {1504, 1510}

\* C28: in simplify, tessellate and remove_non_boundary_edges no membership
\* assertion of the active edge list fails (an edge handed to remove_edge
\* is in the list, one handed to insert_edge is not), and while the sweep
\* of simplify is between two vertices EdgeList::contains is true of an
\* edge of the mesh exactly when the edge is linked in the active list
C28_MembershipHolds ==
    /\ m.asserts \cap MembershipAsserts = {}
    /\ InSimplify =>
           \A e \in MeshEdges(m) : contains(m, e) <=> e \in AEL(m)

\* the sweep of simplify stands between two vertices with at least two
\* edges in the active list, edges having been inserted and removed
C28_Witness ==
    /\ InSimplify
    /\ Cardinality(AEL(m)) >= 2
    /\ \E e \in MeshEdges(m) : ~contains(m, e) /\ m.V[m.E[e].fBottom].fProcessed
    /\ m.asserts \cap MembershipAsserts = {}

(***************************************************************************)
(* The list merge_sort leaves.                                             *)
(***************************************************************************)

\* the last vertex reached from the head of the list of the state s by
\* following fNext, 0 for the empty list
LastOf(s) ==
    IF MeshList(s) = << >> THEN 0 ELSE MeshList(s)[Len(MeshList(s))]

\* C29: after merge_sort returns the VertexList is a well-formed
\* doubly-linked list: the head has no predecessor, the tail has no
\* successor, the tail is the last vertex reached from the head by
\* following fNext, and each vertex is the predecessor of its successor
C29_WellFormedAfterSort ==
    BeforeSort =>
        \A s \in { SortedState } :
            /\ s.mesh.fHead # 0 => s.V[s.mesh.fHead].fPrev = 0
            /\ s.mesh.fTail # 0 => s.V[s.mesh.fTail].fNext = 0
            /\ s.mesh.fTail = LastOf(s)
            /\ \A u \in Range(MeshList(s)) :
                   s.V[u].fNext # 0 => s.V[s.V[u].fNext].fPrev = u

(***************************************************************************)
(* The output pointer of PathToVertices.                                   *)
(***************************************************************************)

\* C30: on every return path of PathToVertices *verts has been assigned:
\* it is nullptr when the call returns 0 and an array of at least n
\* records when the call returns n > 0
C30_VertsAssigned ==
    pc = "done" /\ in.entry = "PathToVertices" =>
        /\ verts # "unassigned"
        /\ ret = 0 => verts = "nullptr"
        /\ ret > 0 => verts = "array" /\ count >= ret /\ Len(data) = ret

====
